---- MODULE Spec2Model ----
(***************************************************************************)
(* The generational LRU cache of kysely-node-sqlite (module "#lru.js"):    *)
(* the engine LRUBase and the Map-compatible facade QuickLRU.              *)
(*                                                                         *)
(* A JavaScript Map is modelled as a sequence of records in insertion      *)
(* order: [key, value, expiry].  Date.now() is the variable now, advanced  *)
(* by Tick.  The onEviction option is a flag (configured or not); the      *)
(* calls the cache makes to it during one operation are recorded, in       *)
(* order, in notes.                                                        *)
(***************************************************************************)
EXTENDS Integers, Sequences, FiniteSets, TLC

\* ---- bounds of the model ------------------------------------------------
\* maxSize, at construction and in resize, ranges over 1..MaxSizeBound
MaxSizeBound == 2
\* a finite maxAge ranges over 1..MaxAgeBound
MaxAgeBound == 1
\* Date.now() ranges over 1..MaxTime
MaxTime == 2

\* the keys, and the values a key is set to
Keys == {"a", "b", "c"}
ValuesOf(k) == IF k = "a" THEN {1, 2} ELSE IF k = "b" THEN {2, 3} ELSE {3, 1}
\* the keys of the specification with TTL
TTLKeys == {"a", "b"}

\* ---- values of the program ----------------------------------------------
\* `undefined` as a return value (not-found) and as an absent expiry/option
Undefined == 0
\* Number.POSITIVE_INFINITY, the maxAge of a cache without TTL
Infinity == 1000000

VARIABLES
    cache,       \* LRUBase.#cache: the active generation
    oldCache,    \* LRUBase.#oldCache: the previous generation
    size,        \* LRUBase.#size: the active-count
    maxSize,     \* LRUBase.#maxSize
    maxAge,      \* LRUBase.#maxAge: the default TTL, or Infinity
    onEviction,  \* TRUE iff options.onEviction is a function
    now,         \* Date.now()
    map,         \* QuickLRU.#map: the facade's mirror
    op,          \* the last call: its name, key and value, size or options argument
    ret,         \* what the last call returned
    notes,       \* the onEviction calls made during the last call, in order
    rotated,     \* TRUE iff the last call rotated the generations
    lastSet,     \* history: per key, the entry of its most recent set still in force
    trace,       \* history: the calls so far, while they follow a scenario of section 8
    error,       \* the exception that ended the last call: "none", "TypeError"
                 \* (a configuration error) or "onEviction" (thrown by the callback)
    permits,     \* SqliteDriver.#mutex: the value of its semaphore (1 when free)
    waiters,     \* SqliteDriver.#mutex: the callers waiting in acquire(), oldest first
    jobs,        \* the callers whose call resumes in a later turn, in the order of
                 \* their promises' settling (the promise jobs queued)
    pc,          \* per caller of the driver: where it is, and in which call
    db,          \* TRUE iff SqliteDriver.#db is defined
    connection,  \* TRUE iff SqliteDriver.#connection is defined
    done,        \* the driver call that completed last: caller, call and outcome
    result,      \* the last executeQuery: what it read, prepared, met and threw
    config,      \* the PragmaConfig that getPragmaStatements is called with
    statements,  \* what getPragmaStatements returned
    recency,     \* history: the order in which the keys were last accessed
    iter         \* the suspended generator: of entriesAscending, entriesDescending or streamQuery

lruVars == <<cache, oldCache, size, maxSize, maxAge, onEviction, now, map,
             op, ret, notes, rotated, lastSet, trace, error>>

driverVars == <<permits, waiters, jobs, pc, db, connection, done>>

vars == <<cache, oldCache, size, maxSize, maxAge, onEviction, now, map,
          op, ret, notes, rotated, lastSet, trace, error,
          permits, waiters, jobs, pc, db, connection, done, result, config, statements,
          recency, iter>>

\* the callers of the driver
Procs == {"p1", "p2", "p3"}

Idle == [at |-> "idle", call |-> "none"]

NoCall == [proc |-> "-", call |-> "none", outcome |-> "none"]

\* no exception, and no error met
NoError == [isError |-> FALSE, instance |-> FALSE, fields |-> FALSE,
            code |-> "", errcode |-> 0, message |-> ""]

NoResult == [hit |-> FALSE, prepares |-> 0, handle |-> 0, stored |-> FALSE,
             stage |-> "none", cause |-> NoError, thrown |-> NoError]

\* an option of a PragmaConfig that is left out
Unset == [given |-> FALSE]

\* the PragmaConfig {}
NoConfig == [journalMode |-> Unset, synchronous |-> Unset, cacheSize |-> Unset,
             mmapSize |-> Unset, tempStore |-> Unset, lockingMode |-> Unset,
             busyTimeout |-> Unset, foreignKeys |-> Unset,
             walAutocheckpoint |-> Unset, trustedSchema |-> Unset]

\* no generator is suspended
NoIter == [kind |-> "none", phase |-> "done", target |-> "none", items |-> <<>>, pos |-> 0]

\* a driver on which init has not run and a connection that ran no query
NoDriver ==
    /\ permits = 1
    /\ waiters = <<>>
    /\ jobs = <<>>
    /\ pc = [p \in Procs |-> Idle]
    /\ db = FALSE
    /\ connection = FALSE
    /\ done = NoCall
    /\ result = NoResult
    /\ config = NoConfig
    /\ statements = <<>>

\* ---- JavaScript Map -----------------------------------------------------
MapHas(m, k) == \E i \in 1..Len(m) : m[i].key = k

MapIndex(m, k) == CHOOSE i \in 1..Len(m) : m[i].key = k

MapGet(m, k) == m[MapIndex(m, k)]

\* Map.prototype.set: an existing key keeps its position
MapSet(m, k, e) ==
    IF MapHas(m, k)
    THEN [m EXCEPT ![MapIndex(m, k)] = e]
    ELSE Append(m, e)

MapDelete(m, k) == SelectSeq(m, LAMBDA e : e.key # k)

MapKeys(m) == { m[i].key : i \in 1..Len(m) }

Entry(k, v, x) == [key |-> k, value |-> v, expiry |-> x]

Note(e) == [key |-> e.key, value |-> e.value]

\* ---- LRUBase ------------------------------------------------------------
\* The instance during a call: the fields a call may assign, what it has
\* notified so far and what it returns.
This == [cache |-> cache, oldCache |-> oldCache, size |-> size,
         maxSize |-> maxSize, notes |-> <<>>, rotated |-> FALSE,
         ret |-> Undefined, error |-> "none"]

\* the instance after the step
ThisNext == [cache |-> cache', oldCache |-> oldCache', size |-> size',
             maxSize |-> maxSize', notes |-> <<>>, rotated |-> FALSE,
             ret |-> Undefined, error |-> "none"]

emitEvictions(m) ==
    IF ~onEviction THEN <<>>
    ELSE [i \in 1..Len(m) |-> Note(m[i])]

\* delete leaving #size as it is
deleteKeepSize(b, k) ==
    LET deleted == MapHas(b.cache, k)
    IN [b EXCEPT !.cache = MapDelete(@, k),
                 !.oldCache = MapDelete(@, k),
                 !.ret = MapHas(b.oldCache, k) \/ deleted]

\* delete reporting only the removal from #cache
deleteRetActive(b, k) ==
    LET deleted == MapHas(b.cache, k)
    IN [b EXCEPT !.cache = MapDelete(@, k),
                 !.size = IF deleted THEN @ - 1 ELSE @,
                 !.oldCache = MapDelete(@, k),
                 !.ret = deleted]

delete(b, k) ==
    LET deleted == MapHas(b.cache, k)
    IN [b EXCEPT !.cache = MapDelete(@, k),
                 !.size = IF deleted THEN @ - 1 ELSE @,
                 !.oldCache = MapDelete(@, k),
                 !.ret = MapHas(b.oldCache, k) \/ deleted]

\* an entry expiring only after its expiry time has passed
isExpiredLate(item) == item.expiry # Undefined /\ item.expiry < now

isExpired(item) == item.expiry # Undefined /\ item.expiry <= now

deleteIfExpired(b, k, item) ==
    IF isExpired(item)
    THEN delete([b EXCEPT !.notes = IF onEviction THEN Append(@, Note(item)) ELSE @], k)
    ELSE [b EXCEPT !.ret = FALSE]

getOrDeleteIfExpired(b, k, item) ==
    LET d == deleteIfExpired(b, k, item)
    IN [d EXCEPT !.ret = IF d.ret = FALSE THEN item.value ELSE Undefined]

getItemValue(b, k, item) ==
    IF item.expiry # Undefined
    THEN getOrDeleteIfExpired(b, k, item)
    ELSE [b EXCEPT !.ret = item.value]

privPeek(b, k, m) ==
    IF ~MapHas(m, k) THEN [b EXCEPT !.ret = Undefined]
    ELSE getItemValue(b, k, MapGet(m, k))

\* #set rotating only once the active-count exceeds maxSize
privSetLate(b, k, item) ==
    LET c1 == MapSet(b.cache, k, item)
        s1 == b.size + 1
    IN IF s1 > b.maxSize
       THEN [b EXCEPT !.size = 0,
                      !.notes = @ \o emitEvictions(b.oldCache),
                      !.oldCache = c1,
                      !.cache = <<>>,
                      !.rotated = TRUE]
       ELSE [b EXCEPT !.cache = c1, !.size = s1]

\* #set swapping the generations before it notifies
privSetSwapFirst(b, k, item) ==
    LET c1 == MapSet(b.cache, k, item)
        s1 == b.size + 1
    IN IF s1 >= b.maxSize
       THEN [b EXCEPT !.size = 0,
                      !.notes = @ \o emitEvictions(c1),
                      !.oldCache = c1,
                      !.cache = <<>>,
                      !.rotated = TRUE]
       ELSE [b EXCEPT !.cache = c1, !.size = s1]

privSet(b, k, item) ==
    LET c1 == MapSet(b.cache, k, item)
        s1 == b.size + 1
    IN IF s1 >= b.maxSize
       THEN [b EXCEPT !.size = 0,
                      !.notes = @ \o emitEvictions(b.oldCache),
                      !.oldCache = c1,
                      !.cache = <<>>,
                      !.rotated = TRUE]
       ELSE [b EXCEPT !.cache = c1, !.size = s1]

\* #moveToRecent giving the promoted entry a fresh lifetime
moveToRecentRefresh(b, k, item) ==
    privSet([b EXCEPT !.oldCache = MapDelete(@, k)], k,
            [item EXCEPT !.expiry = IF maxAge # Infinity
                                    THEN now + maxAge ELSE Undefined])

\* #moveToRecent leaving the previous copy in place
moveToRecentKeep(b, k, item) == privSet(b, k, item)

moveToRecent(b, k, item) ==
    privSet([b EXCEPT !.oldCache = MapDelete(@, k)], k, item)

\* get returning the value of a key of #oldCache without promoting it
getNoPromote(b, k) ==
    IF MapHas(b.cache, k)
    THEN getItemValue(b, k, MapGet(b.cache, k))
    ELSE IF MapHas(b.oldCache, k)
    THEN LET item == MapGet(b.oldCache, k)
             d == deleteIfExpired(b, k, item)
         IN IF d.ret = FALSE
            THEN [d EXCEPT !.ret = item.value]
            ELSE [d EXCEPT !.ret = Undefined]
    ELSE [b EXCEPT !.ret = Undefined]

get(b, k) ==
    IF MapHas(b.cache, k)
    THEN getItemValue(b, k, MapGet(b.cache, k))
    ELSE IF MapHas(b.oldCache, k)
    THEN LET item == MapGet(b.oldCache, k)
             d == deleteIfExpired(b, k, item)
         IN IF d.ret = FALSE
            THEN [moveToRecent(d, k, item) EXCEPT !.ret = item.value]
            ELSE [d EXCEPT !.ret = Undefined]
    ELSE [b EXCEPT !.ret = Undefined]

\* set leaving the entry of a key already in #cache as it is
setNoOverwrite(b, k, v, m) ==
    LET age == IF m # Undefined THEN m ELSE maxAge
        expiry == IF age # Infinity THEN now + age ELSE Undefined
    IN IF MapHas(b.cache, k)
       THEN b
       ELSE privSet(b, k, Entry(k, v, expiry))

\* options.maxAge is m; Undefined when the option is absent
set(b, k, v, m) ==
    LET age == IF m # Undefined THEN m ELSE maxAge
        expiry == IF age # Infinity THEN now + age ELSE Undefined
    IN IF MapHas(b.cache, k)
       THEN [b EXCEPT !.cache = MapSet(@, k, Entry(k, v, expiry))]
       ELSE privSet(b, k, Entry(k, v, expiry))

has(b, k) ==
    IF MapHas(b.cache, k)
    THEN LET d == deleteIfExpired(b, k, MapGet(b.cache, k))
         IN [d EXCEPT !.ret = ~d.ret]
    ELSE IF MapHas(b.oldCache, k)
    THEN LET d == deleteIfExpired(b, k, MapGet(b.oldCache, k))
         IN [d EXCEPT !.ret = ~d.ret]
    ELSE [b EXCEPT !.ret = FALSE]

\* peek promoting as get does
peekPromotes(b, k) == get(b, k)

peek(b, k) ==
    IF MapHas(b.cache, k) THEN privPeek(b, k, b.cache)
    ELSE IF MapHas(b.oldCache, k) THEN privPeek(b, k, b.oldCache)
    ELSE [b EXCEPT !.ret = Undefined]

\* clear notifying the entries it discards
clearNotifying(b) ==
    [b EXCEPT !.notes = @ \o emitEvictions(b.oldCache) \o emitEvictions(b.cache),
              !.cache = <<>>, !.oldCache = <<>>, !.size = 0]

\* clear emptying the active generation only
clearKeepOld(b) == [b EXCEPT !.cache = <<>>, !.size = 0]

clear(b) == [b EXCEPT !.cache = <<>>, !.oldCache = <<>>, !.size = 0]

\* #entriesAscending run to completion: the first loop, over #oldCache
RECURSIVE walkOld(_, _, _)
walkOld(r, snapshot, i) ==
    IF i > Len(snapshot) THEN r
    ELSE LET item == snapshot[i]
         IN IF ~MapHas(r.b.oldCache, item.key) \/ MapHas(r.b.cache, item.key)
            THEN walkOld(r, snapshot, i + 1)
            ELSE LET d == deleteIfExpired(r.b, item.key, item)
                 IN walkOld([b |-> d,
                             items |-> IF d.ret = FALSE THEN Append(r.items, item)
                                       ELSE r.items],
                            snapshot, i + 1)

\* #entriesAscending run to completion: the second loop, over #cache
RECURSIVE walkCache(_, _, _)
walkCache(r, snapshot, i) ==
    IF i > Len(snapshot) THEN r
    ELSE LET item == snapshot[i]
         IN IF ~MapHas(r.b.cache, item.key)
            THEN walkCache(r, snapshot, i + 1)
            ELSE LET d == deleteIfExpired(r.b, item.key, item)
                 IN walkCache([b |-> d,
                               items |-> IF d.ret = FALSE THEN Append(r.items, item)
                                         ELSE r.items],
                              snapshot, i + 1)

\* #entriesAscending walking #cache before #oldCache
privEntriesActiveFirst(b) ==
    LET r1 == walkCache([b |-> b, items |-> <<>>], b.cache, 1)
    IN walkOld(r1, r1.b.oldCache, 1)

\* [...this.#entriesAscending()]: the instance afterwards and the entries yielded
privEntriesAscending(b) ==
    LET r1 == walkOld([b |-> b, items |-> <<>>], b.oldCache, 1)
    IN walkCache(r1, r1.b.cache, 1)

\* the [key, value.value] pairs that the public traversals yield
Pairs(items) == [i \in 1..Len(items) |-> Note(items[i])]

\* [...this.entriesAscending()]: the instance afterwards and the pairs yielded
entriesAscending(b) ==
    LET r == privEntriesAscending(b)
    IN [b |-> r.b, items |-> Pairs(r.items)]

\* entriesDescending run to completion: the first loop, over the array
\* cacheItems, from its last element to its first
RECURSIVE walkCacheItems(_, _, _)
walkCacheItems(r, cacheItems, i) ==
    IF i < 1 THEN r
    ELSE LET item == cacheItems[i]
             d == deleteIfExpired(r.b, item.key, item)
         IN walkCacheItems([b |-> d,
                            items |-> IF d.ret = FALSE THEN Append(r.items, item)
                                      ELSE r.items],
                           cacheItems, i - 1)

\* entriesDescending run to completion: the second loop, over the array oldItems
RECURSIVE walkOldItems(_, _, _)
walkOldItems(r, oldItems, i) ==
    IF i < 1 THEN r
    ELSE LET item == oldItems[i]
         IN IF MapHas(r.b.cache, item.key)
            THEN walkOldItems(r, oldItems, i - 1)
            ELSE LET d == deleteIfExpired(r.b, item.key, item)
                 IN walkOldItems([b |-> d,
                                  items |-> IF d.ret = FALSE THEN Append(r.items, item)
                                            ELSE r.items],
                                 oldItems, i - 1)

\* entriesDescending walking the two arrays from their first element
entriesDescendingForward(b) ==
    LET r1 == walkCache([b |-> b, items |-> <<>>], b.cache, 1)
        r2 == walkOld(r1, r1.b.oldCache, 1)
    IN [b |-> r2.b, items |-> Pairs(r2.items)]

\* [...this.entriesDescending()]: the instance afterwards and the pairs yielded
entriesDescending(b) ==
    LET r1 == walkCacheItems([b |-> b, items |-> <<>>], b.cache, Len(b.cache))
        r2 == walkOldItems(r1, r1.b.oldCache, Len(r1.b.oldCache))
    IN [b |-> r2.b, items |-> Pairs(r2.items)]

\* resize taking the first branch also when nothing has to be removed
resizeActiveWhenFull(b, n) ==
    LET r == privEntriesAscending(b)
        items == r.items
        removeCount == Len(items) - n
    IN IF removeCount <= 0
       THEN [r.b EXCEPT !.cache = items,
                        !.oldCache = <<>>,
                        !.size = Len(items),
                        !.maxSize = n,
                        !.ret = Undefined]
       ELSE [r.b EXCEPT !.notes = @ \o emitEvictions(SubSeq(items, 1, removeCount)),
                        !.oldCache = SubSeq(items, removeCount + 1, Len(items)),
                        !.cache = <<>>,
                        !.size = 0,
                        !.maxSize = n,
                        !.ret = Undefined]

\* resize notifying one entry less than it removes
resizeOneLess(b, n) ==
    LET r == privEntriesAscending(b)
        items == r.items
        removeCount == Len(items) - n
    IN IF removeCount < 0
       THEN [r.b EXCEPT !.cache = items,
                        !.oldCache = <<>>,
                        !.size = Len(items),
                        !.maxSize = n,
                        !.ret = Undefined]
       ELSE [r.b EXCEPT !.notes = IF removeCount > 0
                                  THEN @ \o emitEvictions(SubSeq(items, 1, removeCount - 1))
                                  ELSE @,
                        !.oldCache = SubSeq(items, removeCount + 1, Len(items)),
                        !.cache = <<>>,
                        !.size = 0,
                        !.maxSize = n,
                        !.ret = Undefined]

\* resize(n) with a positive n: lines 215-231; the method returns nothing
resize(b, n) ==
    LET r == privEntriesAscending(b)
        items == r.items
        removeCount == Len(items) - n
    IN IF removeCount < 0
       THEN [r.b EXCEPT !.cache = items,
                        !.oldCache = <<>>,
                        !.size = Len(items),
                        !.maxSize = n,
                        !.ret = Undefined]
       ELSE [r.b EXCEPT !.notes = IF removeCount > 0
                                  THEN @ \o emitEvictions(SubSeq(items, 1, removeCount))
                                  ELSE @,
                        !.oldCache = SubSeq(items, removeCount + 1, Len(items)),
                        !.cache = <<>>,
                        !.size = 0,
                        !.maxSize = n,
                        !.ret = Undefined]

\* get size() counting the keys of #oldCache that are in #cache as well
sizeGetterNoShadow(b) ==
    IF b.size = 0 THEN Len(b.oldCache)
    ELSE IF b.size + Len(b.oldCache) < b.maxSize THEN b.size + Len(b.oldCache)
         ELSE b.maxSize

\* get size()
sizeGetter(b) ==
    IF b.size = 0 THEN Len(b.oldCache)
    ELSE LET oldCacheSize == Cardinality({ i \in 1..Len(b.oldCache) :
                                            ~MapHas(b.cache, b.oldCache[i].key) })
         IN IF b.size + oldCacheSize < b.maxSize THEN b.size + oldCacheSize
            ELSE b.maxSize

\* ---- history variables --------------------------------------------------
NoKey == "-"

NoSet == [value |-> Undefined, expiry |-> Undefined]

Named(ns) == { ns[i].key : i \in 1..Len(ns) }

\* a notification naming k ends the force of k's last set
Forget(ls, ns) == [k \in Keys |-> IF k \in Named(ns) THEN NoSet ELSE ls[k]]

\* a call: its name, its key, and its value or size argument
Call(name, k, v) == [name |-> name, key |-> k, arg |-> v]

\* section 8.7 on a fresh cache with maxSize 2
Scenario == << Call("set", "a", 1), Call("set", "b", 2), Call("get", "a", Undefined),
               Call("set", "c", 3), Call("get", "b", Undefined),
               Call("get", "a", Undefined), Call("get", "c", Undefined) >>

\* section 8.3 on a fresh cache with maxSize 2: a is read with get, b with peek
\* and has, then c is set
PeekScenario == << Call("set", "a", 1), Call("set", "b", 2), Call("get", "a", Undefined),
                   Call("peek", "b", Undefined), Call("has", "b", Undefined),
                   Call("set", "c", 3) >>

Scripts == {Scenario, PeekScenario}

OffScript == << Call("off", NoKey, Undefined) >>

IsPrefix(t, s) == Len(t) <= Len(s) /\ SubSeq(s, 1, Len(t)) = t

TraceNext(c) ==
    LET t == Append(trace, c)
    IN IF trace # OffScript /\ maxSize = 2 /\ \E s \in Scripts : IsPrefix(t, s)
       THEN t ELSE OffScript

\* the assignments a completed call makes
\* the accesses are not recorded
NoRecency == [order |-> <<>>, deleted |-> {}, fresh |-> {}, on |-> FALSE]

\* no access yet, and the accesses are recorded
NoAccess == [order |-> <<>>, deleted |-> {}, fresh |-> {}, on |-> TRUE]

\* the keys of a sequence
Range(ks) == {ks[i] : i \in 1..Len(ks)}

\* the keys of a sequence without k, in their order
Without(ks, k) == SelectSeq(ks, LAMBDA x : x # k)

\* an access is a set or a get that found the key: the key becomes the most
\* recent one, and it was accessed since the previous rotation unless the access
\* itself rotated; a delete is remembered until the key is accessed again
RecencyNext(b, c) ==
    IF ~recency.on THEN recency
    ELSE IF c.name = "set" \/ (c.name = "get" /\ b.ret # Undefined)
    THEN [recency EXCEPT !.order = <<c.key>> \o Without(recency.order, c.key),
                         !.deleted = recency.deleted \ {c.key},
                         !.fresh = IF b.rotated THEN {} ELSE recency.fresh \cup {c.key}]
    ELSE IF c.name = "delete"
    THEN [recency EXCEPT !.deleted = IF c.key \in Range(recency.order)
                                       THEN recency.deleted \cup {c.key}
                                       ELSE recency.deleted,
                         !.fresh = recency.fresh \ {c.key}]
    ELSE recency

\* ---- a suspended generator and the calls made meanwhile ------------------
\* A generator iterates a Map object (for ... of this.#oldCache, then for ... of
\* this.#cache) or an array. iter.target tells which object that is now: the
\* one #cache refers to, the one #oldCache refers to, or "own": a Map that the
\* cache no longer refers to, or an array, whose entries are iter.items.
\* iter.pos is the number of entries of the object already passed.

\* the entries of the object that the generator iterates
Source(b, it) ==
    IF it.target = "cache" THEN b.cache
    ELSE IF it.target = "oldCache" THEN b.oldCache
    ELSE it.items

\* a Map iterator passes over deleted entries: of the entries already passed,
\* those that are still in the Map
Passed(before, after, pos) ==
    Cardinality({i \in 1..pos : MapHas(after, before[i].key)})

\* the generator after a call of the cache that led from This to b: a rotation
\* makes the object of #cache the object of #oldCache and lets go of the former
\* object of #oldCache; a resize that its argument check and its callbacks let
\* through lets go of both after its own traversal
IterAfter(b, c) ==
    IF iter.kind = "none" \/ iter.target \notin {"cache", "oldCache"} THEN iter
    ELSE IF c.name = "resize" /\ b.error = "none"
    THEN LET w == privEntriesAscending(This).b
         IN [iter EXCEPT !.target = "own",
                         !.items = Source(w, iter),
                         !.pos = Passed(Source(This, iter), Source(w, iter), iter.pos)]
    ELSE IF b.rotated /\ iter.target = "oldCache"
    THEN LET left == IF c.name = "get" THEN MapDelete(oldCache, c.key) ELSE oldCache
         IN [iter EXCEPT !.target = "own",
                         !.items = left,
                         !.pos = Passed(oldCache, left, iter.pos)]
    ELSE IF b.rotated
    THEN [iter EXCEPT !.target = "oldCache",
                      !.pos = Passed(cache, b.oldCache, iter.pos)]
    ELSE [iter EXCEPT !.pos = Passed(Source(This, iter), Source(b, iter), iter.pos)]

Commit(b, c, ls) ==
    /\ cache' = b.cache
    /\ oldCache' = b.oldCache
    /\ size' = b.size
    /\ maxSize' = b.maxSize
    /\ notes' = b.notes
    /\ rotated' = b.rotated
    /\ ret' = b.ret
    /\ op' = c
    /\ lastSet' = ls
    /\ trace' = TraceNext(c)
    /\ error' = b.error
    /\ recency' = RecencyNext(b, c)
    /\ iter' = IterAfter(b, c)
    /\ UNCHANGED <<maxAge, onEviction, now>>
    /\ UNCHANGED <<driverVars, result, config, statements>>

\* ---- the calls on a bare LRUBase ----------------------------------------
SetOptions == {Undefined} \cup (1..MaxAgeBound)

\* the expiry set(k, v, {maxAge: m}) is to give its entry
ExpiryOf(m) ==
    LET age == IF m # Undefined THEN m ELSE maxAge
    IN IF age # Infinity THEN now + age ELSE Undefined

Set(k, v, m) ==
    LET b == set(This, k, v, m)
    IN /\ Commit([b EXCEPT !.ret = Undefined], Call("set", k, v),
                 [Forget(lastSet, b.notes) EXCEPT
                     ![k] = [value |-> v, expiry |-> ExpiryOf(m)]])
       /\ UNCHANGED map

Get(k) ==
    LET b == get(This, k)
    IN /\ Commit(b, Call("get", k, Undefined), Forget(lastSet, b.notes))
       /\ UNCHANGED map

Has(k) ==
    LET b == has(This, k)
    IN /\ Commit(b, Call("has", k, Undefined), Forget(lastSet, b.notes))
       /\ UNCHANGED map

Peek(k) ==
    LET b == peek(This, k)
    IN /\ Commit(b, Call("peek", k, Undefined), Forget(lastSet, b.notes))
       /\ UNCHANGED map

Delete(k) ==
    LET b == delete(This, k)
    IN /\ Commit(b, Call("delete", k, Undefined), [lastSet EXCEPT ![k] = NoSet])
       /\ UNCHANGED map

Clear ==
    /\ Commit(clear(This), Call("clear", NoKey, Undefined), [k \in Keys |-> NoSet])
    /\ UNCHANGED map

\* resize(n) with a positive n
Resize(n) ==
    LET b == resize(This, n)
    IN /\ Commit(b, Call("resize", NoKey, n), Forget(lastSet, b.notes))
       /\ UNCHANGED map

EntriesAscending ==
    LET r == entriesAscending(This)
    IN /\ Commit([r.b EXCEPT !.ret = r.items], Call("entriesAscending", NoKey, Undefined),
                 Forget(lastSet, r.b.notes))
       /\ UNCHANGED map

EntriesDescending ==
    LET r == entriesDescending(This)
    IN /\ Commit([r.b EXCEPT !.ret = r.items], Call("entriesDescending", NoKey, Undefined),
                 Forget(lastSet, r.b.notes))
       /\ UNCHANGED map

\* the clock advances between two calls
TickUntil(last) ==
    /\ now < last
    /\ now' = now + 1
    /\ op' = Call("tick", NoKey, Undefined)
    /\ ret' = Undefined
    /\ notes' = <<>>
    /\ rotated' = FALSE
    /\ trace' = OffScript
    /\ error' = "none"
    /\ UNCHANGED <<cache, oldCache, size, maxSize, maxAge, onEviction, map, lastSet>>
    /\ UNCHANGED <<driverVars, result, config, statements, recency, iter>>

Tick == TickUntil(MaxTime)

\* ---- QuickLRU -----------------------------------------------------------
MapEntry(k, v) == [key |-> k, value |-> v]

\* QuickLRU.set(key, value): a third argument is not passed on
QSet(k, v, m) ==
    LET b == set(This, k, v, Undefined)
    IN /\ Commit([b EXCEPT !.ret = Undefined], Call("set", k, v),
                 [Forget(lastSet, b.notes) EXCEPT
                     ![k] = [value |-> v, expiry |-> ExpiryOf(Undefined)]])
       /\ map' = MapSet(map, k, MapEntry(k, v))

QGet(k) ==
    LET b == get(This, k)
    IN /\ Commit(b, Call("get", k, Undefined), Forget(lastSet, b.notes))
       /\ UNCHANGED map

QHas(k) ==
    LET b == has(This, k)
    IN /\ Commit(b, Call("has", k, Undefined), Forget(lastSet, b.notes))
       /\ UNCHANGED map

QPeek(k) ==
    LET b == peek(This, k)
    IN /\ Commit(b, Call("peek", k, Undefined), Forget(lastSet, b.notes))
       /\ UNCHANGED map

QDelete(k) ==
    LET b == delete(This, k)
    IN /\ Commit(b, Call("delete", k, Undefined), [lastSet EXCEPT ![k] = NoSet])
       /\ UNCHANGED map

QClear ==
    /\ Commit(clear(This), Call("clear", NoKey, Undefined), [k \in Keys |-> NoSet])
    /\ map' = <<>>

QResize(n) ==
    LET b == resize(This, n)
    IN /\ Commit(b, Call("resize", NoKey, n), Forget(lastSet, b.notes))
       /\ UNCHANGED map

\* keys(), and the keys of entries(), values(), forEach and the default iterator
keys == [i \in 1..Len(map) |-> map[i].key]

\* ---- construction -------------------------------------------------------
\* an option that is given, and an option that is absent
Opt(x) == [given |-> TRUE, value |-> x]

NoOpt == [given |-> FALSE, value |-> Undefined]

\* the options with which the fields maxSize and maxAge are constructed
OptionsOf(n, a) ==
    [maxSize |-> Opt(n), maxAge |-> IF a = Infinity THEN NoOpt ELSE Opt(a)]

\* new LRUBase({maxSize, maxAge, onEviction}) with the maxSize option among
\* sizes and the maxAge option among ages
NewLRUOf(sizes, ages) ==
    /\ cache = <<>>
    /\ oldCache = <<>>
    /\ size = 0
    /\ maxSize \in sizes
    /\ maxAge \in ages
    /\ onEviction \in BOOLEAN
    /\ now = 1
    /\ map = <<>>
    /\ op = Call("new", NoKey, OptionsOf(maxSize, maxAge))
    /\ ret = Undefined
    /\ notes = <<>>
    /\ rotated = FALSE
    /\ lastSet = [k \in Keys |-> NoSet]
    /\ trace = <<>>
    /\ error = "none"

\* new LRUBase({maxSize, maxAge, onEviction}) with the maxAge option among ages
NewLRU(ages) == NewLRUOf(1..MaxSizeBound, ages)

\* the cache of a driver on which nothing has been called
New(ages) == NewLRU(ages) /\ NoDriver /\ recency = NoRecency /\ iter = NoIter

\* ---- Spec: an LRUBase without TTL ---------------------------------------
Init == New({Infinity})

Next ==
    \/ \E k \in Keys : \E v \in ValuesOf(k) : Set(k, v, Undefined)
    \/ \E k \in Keys : Get(k)
    \/ \E k \in Keys : Has(k)
    \/ \E k \in Keys : Peek(k)
    \/ \E k \in Keys : Delete(k)
    \/ Clear
    \/ \E n \in 1..MaxSizeBound : Resize(n)

Spec == Init /\ [][Next]_vars

\* ---- SpecTTL: an LRUBase with a default maxAge, per-set maxAge and a clock
InitTTL == New({Infinity} \cup (1..MaxAgeBound))

NextTTL ==
    \/ \E k \in TTLKeys : \E v \in ValuesOf(k) : \E m \in SetOptions : Set(k, v, m)
    \/ \E k \in TTLKeys : Get(k)
    \/ \E k \in TTLKeys : Has(k)
    \/ \E k \in TTLKeys : Peek(k)
    \/ \E k \in TTLKeys : Delete(k)
    \/ Clear
    \/ \E n \in 1..MaxSizeBound : Resize(n)
    \/ Tick

SpecTTL == InitTTL /\ [][NextTTL]_vars

\* ---- SpecFacade: a QuickLRU with a default maxAge and a clock -----------
InitFacade == New({Infinity} \cup (1..MaxAgeBound))

NextFacade ==
    \/ \E k \in TTLKeys : \E v \in ValuesOf(k) : \E m \in SetOptions : QSet(k, v, m)
    \/ \E k \in TTLKeys : QGet(k)
    \/ \E k \in TTLKeys : QHas(k)
    \/ \E k \in TTLKeys : QPeek(k)
    \/ \E k \in TTLKeys : QDelete(k)
    \/ QClear
    \/ \E n \in 1..MaxSizeBound : QResize(n)
    \/ Tick

SpecFacade == InitFacade /\ [][NextFacade]_vars

\* ---- an onEviction callback that throws ---------------------------------
\* The callback is configured and throws each time it is called: the call of
\* the cache ends at its first notification, with the assignments made so far.

\* #deleteIfExpired: line 56 throws, line 59 is not reached
deleteIfExpiredThrows(b, k, item) ==
    IF isExpired(item)
    THEN [b EXCEPT !.notes = Append(@, Note(item)), !.error = "onEviction",
                   !.ret = Undefined]
    ELSE [b EXCEPT !.ret = FALSE]

\* #set: line 91 throws at the first entry of #oldCache, after lines 86-90 and
\* before lines 92-93
privSetThrows(b, k, item) ==
    LET c1 == MapSet(b.cache, k, item)
        s1 == b.size + 1
    IN IF s1 >= b.maxSize
       THEN IF Len(b.oldCache) > 0
            THEN [b EXCEPT !.cache = c1,
                           !.size = 0,
                           !.notes = Append(@, Note(b.oldCache[1])),
                           !.error = "onEviction"]
            ELSE [b EXCEPT !.size = 0,
                           !.oldCache = c1,
                           !.cache = <<>>,
                           !.rotated = TRUE]
       ELSE [b EXCEPT !.cache = c1, !.size = s1]

moveToRecentThrows(b, k, item) ==
    privSetThrows([b EXCEPT !.oldCache = MapDelete(@, k)], k, item)

getItemValueThrows(b, k, item) ==
    IF item.expiry # Undefined
    THEN LET d == deleteIfExpiredThrows(b, k, item)
         IN IF d.error # "none" THEN d ELSE [d EXCEPT !.ret = item.value]
    ELSE [b EXCEPT !.ret = item.value]

getThrows(b, k) ==
    IF MapHas(b.cache, k)
    THEN getItemValueThrows(b, k, MapGet(b.cache, k))
    ELSE IF MapHas(b.oldCache, k)
    THEN LET item == MapGet(b.oldCache, k)
             d == deleteIfExpiredThrows(b, k, item)
         IN IF d.error # "none" THEN d
            ELSE LET s == moveToRecentThrows(d, k, item)
                 IN [s EXCEPT !.ret = IF s.error # "none" THEN Undefined
                                      ELSE item.value]
    ELSE [b EXCEPT !.ret = Undefined]

setThrows(b, k, v, m) ==
    LET age == IF m # Undefined THEN m ELSE maxAge
        expiry == IF age # Infinity THEN now + age ELSE Undefined
    IN IF MapHas(b.cache, k)
       THEN [b EXCEPT !.cache = MapSet(@, k, Entry(k, v, expiry))]
       ELSE privSetThrows(b, k, Entry(k, v, expiry))

hasThrows(b, k) ==
    IF MapHas(b.cache, k) \/ MapHas(b.oldCache, k)
    THEN LET item == IF MapHas(b.cache, k) THEN MapGet(b.cache, k)
                     ELSE MapGet(b.oldCache, k)
             d == deleteIfExpiredThrows(b, k, item)
         IN IF d.error # "none" THEN d ELSE [d EXCEPT !.ret = TRUE]
    ELSE [b EXCEPT !.ret = FALSE]

peekThrows(b, k) ==
    IF MapHas(b.cache, k) THEN getItemValueThrows(b, k, MapGet(b.cache, k))
    ELSE IF MapHas(b.oldCache, k) THEN getItemValueThrows(b, k, MapGet(b.oldCache, k))
    ELSE [b EXCEPT !.ret = Undefined]

\* resize: the first expired entry met by #entriesAscending throws at line 56,
\* the entries before it having been left as they are; without one, line 223
\* throws at the first entry to evict, before lines 226-231
resizeThrows(b, n) ==
    LET r == privEntriesAscending(b)
        items == r.items
        removeCount == Len(items) - n
    IN IF r.b.notes # <<>>
       THEN [b EXCEPT !.notes = <<r.b.notes[1]>>, !.error = "onEviction"]
       ELSE IF removeCount > 0
       THEN [b EXCEPT !.notes = <<Note(items[1])>>, !.error = "onEviction"]
       ELSE resize(b, n)

SetThrows(k, v, m) ==
    LET b == setThrows(This, k, v, m)
    IN /\ Commit([b EXCEPT !.ret = Undefined], Call("set", k, v), lastSet)
       /\ UNCHANGED map

GetThrows(k) ==
    /\ Commit(getThrows(This, k), Call("get", k, Undefined), lastSet)
    /\ UNCHANGED map

HasThrows(k) ==
    /\ Commit(hasThrows(This, k), Call("has", k, Undefined), lastSet)
    /\ UNCHANGED map

PeekThrows(k) ==
    /\ Commit(peekThrows(This, k), Call("peek", k, Undefined), lastSet)
    /\ UNCHANGED map

ResizeThrows(n) ==
    /\ Commit(resizeThrows(This, n), Call("resize", NoKey, n), lastSet)
    /\ UNCHANGED map

\* ---- SpecThrows: an LRUBase whose onEviction callback throws -------------
InitThrows == New({Infinity} \cup (1..MaxAgeBound)) /\ onEviction

NextThrows ==
    \/ \E k \in TTLKeys : \E v \in ValuesOf(k) : SetThrows(k, v, Undefined)
    \/ \E k \in TTLKeys : GetThrows(k)
    \/ \E k \in TTLKeys : HasThrows(k)
    \/ \E k \in TTLKeys : PeekThrows(k)
    \/ \E k \in TTLKeys : Delete(k)
    \/ Clear
    \/ \E n \in 1..MaxSizeBound : ResizeThrows(n)
    \/ Tick

SpecThrows == InitThrows /\ [][NextThrows]_vars

\* ---- configuration errors ----------------------------------------------
\* the maxSize and maxAge options a constructor may be called with
MaxSizeOptions == {NoOpt} \cup { Opt(n) : n \in -1..MaxSizeBound }

MaxAgeOptions == {NoOpt} \cup { Opt(a) : a \in 0..MaxAgeBound }

\* `!(x && x > 0)` of an argument or option x
NotPositive(x) == ~(x.given /\ x.value # 0 /\ x.value > 0)

\* the constructor accepting a maxAge of 0
constructorAnyAge(o) ==
    IF NotPositive(o.maxSize)
    THEN [error |-> "TypeError", maxSize |-> Undefined, maxAge |-> Undefined]
    ELSE [error |-> "none",
          maxSize |-> o.maxSize.value,
          maxAge |-> IF o.maxAge.given /\ o.maxAge.value # 0 THEN o.maxAge.value
                     ELSE Infinity]

\* new LRUBase(o): the exception raised, or the fields #maxSize and #maxAge
constructor(o) ==
    IF NotPositive(o.maxSize)
    THEN [error |-> "TypeError", maxSize |-> Undefined, maxAge |-> Undefined]
    ELSE IF o.maxAge.given /\ o.maxAge.value = 0
    THEN [error |-> "TypeError", maxSize |-> Undefined, maxAge |-> Undefined]
    ELSE [error |-> "none",
          maxSize |-> o.maxSize.value,
          maxAge |-> IF o.maxAge.given /\ o.maxAge.value # 0 THEN o.maxAge.value
                     ELSE Infinity]

\* resize collecting the entries before it checks its argument
resizeCallLate(b, a) ==
    IF NotPositive(a)
    THEN [privEntriesAscending(b).b EXCEPT !.error = "TypeError"]
    ELSE resize(b, a.value)

\* resize(a) with any argument: lines 211-213, then the rest of the method
resizeCall(b, a) ==
    IF NotPositive(a)
    THEN [b EXCEPT !.error = "TypeError"]
    ELSE resize(b, a.value)

\* no constructor has been called yet
NotConstructed ==
    /\ cache = <<>>
    /\ oldCache = <<>>
    /\ size = 0
    /\ maxSize = Undefined
    /\ maxAge = Undefined
    /\ onEviction \in BOOLEAN
    /\ now = 1
    /\ map = <<>>
    /\ op = Call("none", NoKey, Undefined)
    /\ ret = Undefined
    /\ notes = <<>>
    /\ rotated = FALSE
    /\ lastSet = [k \in Keys |-> NoSet]
    /\ trace = <<>>
    /\ error = "none"
    /\ NoDriver
    /\ recency = NoRecency /\ iter = NoIter

Construct(o) ==
    /\ op.name = "none"
    /\ LET r == constructor(o)
       IN /\ maxSize' = r.maxSize
          /\ maxAge' = r.maxAge
          /\ error' = r.error
    /\ op' = Call("new", NoKey, o)
    /\ UNCHANGED <<cache, oldCache, size, onEviction, now, map, ret, notes, rotated,
                   lastSet, trace>>
    /\ UNCHANGED <<driverVars, result, config, statements, recency, iter>>

\* a cache exists: the constructor has returned
Constructed == op.name # "none" /\ ~(op.name = "new" /\ error = "TypeError")

ResizeCall(a) ==
    LET b == resizeCall(This, a)
    IN /\ Commit(b, Call("resize", NoKey, a.value), Forget(lastSet, b.notes))
       /\ UNCHANGED map

\* ---- SpecNew: construction with any options, then calls that use the
\* default maxAge, resize with any argument, and a clock
InitNew == NotConstructed

NextNew ==
    \/ \E n \in MaxSizeOptions : \E a \in MaxAgeOptions :
          Construct([maxSize |-> n, maxAge |-> a])
    \/ Constructed /\ \E k \in TTLKeys : \E v \in ValuesOf(k) : Set(k, v, Undefined)
    \/ Constructed /\ \E k \in TTLKeys : Get(k)
    \/ Constructed /\ \E k \in TTLKeys : Has(k)
    \/ Constructed /\ \E a \in MaxSizeOptions : ResizeCall(a)
    \/ Constructed /\ Tick

SpecNew == InitNew /\ [][NextNew]_vars

\* ---- SqliteDriver -------------------------------------------------------
\* A call of the driver that awaits a promise resumes in a later turn, and the
\* turns run in the order in which the promises settled: jobs holds the
\* callers whose call has a turn to come.  A call whose promise is not the
\* driver's (the database function, a pragma, onCreateConnection) resumes
\* whenever that promise settles.

\* Mutex.isLocked() of async-mutex: the semaphore has no permit left
isLocked == permits <= 0

\* Mutex.acquire() called by p for call c: a permit is taken at once when
\* there is one, otherwise p waits behind the callers already waiting; the
\* caller resumes in a later turn
mutexAcquire(p, c) ==
    IF permits >= 1 /\ waiters = <<>>
    THEN /\ permits' = permits - 1
         /\ waiters' = waiters
         /\ jobs' = Append(jobs, p)
         /\ pc' = [pc EXCEPT ![p] = [at |-> "granted", call |-> c]]
    ELSE /\ permits' = permits
         /\ waiters' = Append(waiters, p)
         /\ jobs' = jobs
         /\ pc' = [pc EXCEPT ![p] = [at |-> "waiting", call |-> c]]

\* the releaser that acquire() and runExclusive() obtain: a permit is added,
\* and it passes to the oldest waiter when the semaphore then has one to give;
\* the waiter's turn is queued before the turns of after, the callers that
\* resume because of what follows the release.  pcs is pc with the releasing
\* caller's position updated, js the turns queued before the release
releaser(pcs, js, after) ==
    IF waiters # <<>> /\ permits + 1 >= 1
    THEN /\ permits' = permits
         /\ waiters' = Tail(waiters)
         /\ jobs' = Append(js, Head(waiters)) \o after
         /\ pc' = [pcs EXCEPT ![Head(waiters)].at = "granted"]
    ELSE /\ permits' = permits + 1
         /\ waiters' = waiters
         /\ jobs' = js \o after
         /\ pc' = pcs

\* Mutex.release(): the releaser, called only when the mutex is locked
mutexRelease(pcs) ==
    IF isLocked
    THEN releaser(pcs, jobs, <<>>)
    ELSE /\ pc' = pcs
         /\ UNCHANGED <<permits, waiters, jobs>>

\* the turn of caller p has come: it is the oldest one queued
Turn(p) == jobs # <<>> /\ Head(jobs) = p

Done(p, c, o) == [proc |-> p, call |-> c, outcome |-> o]

\* init() is called: runExclusive asks for the lock
InitCall(p) ==
    /\ pc[p] = Idle
    /\ mutexAcquire(p, "init")
    /\ UNCHANGED <<db, connection, done, result, config, statements, recency, iter>>
    /\ UNCHANGED lruVars

\* runExclusive resumes with the lock and calls the callback of init(), which
\* runs up to the database function (lines 353-358)
InitStart(p) ==
    /\ Turn(p)
    /\ pc[p] = [at |-> "granted", call |-> "init"]
    /\ jobs' = Tail(jobs)
    /\ pc' = [pc EXCEPT ![p].at = "started"]
    /\ UNCHANGED <<permits, waiters, db, connection, done>>
    /\ UNCHANGED <<result, config, statements, recency, iter>>
    /\ UNCHANGED lruVars

\* how lines 357-376 of init() end: "nodb" (the database function threw or
\* gave no database: thrown before #db is assigned), "nocache" (the statement
\* cache could not be created: thrown after #db is assigned) or "open" (#db,
\* #cache and #connection are assigned)
InitOutcomes == {"open", "nodb", "nocache"}

\* the body of init() under the lock from the database to the assignment of
\* #connection.  When it throws, the callback of runExclusive has thrown, the
\* lock still held, and runExclusive resumes in a later turn; otherwise the
\* statement cache created is empty and the body goes on with the pragmas and
\* onCreateConnection
InitRun(p, o) ==
    /\ pc[p] = [at |-> "started", call |-> "init"]
    /\ db' = IF o = "nodb" THEN db ELSE TRUE
    /\ connection' = IF o = "open" THEN TRUE ELSE connection
    /\ IF o = "open"
       THEN /\ cache' = <<>> /\ oldCache' = <<>> /\ size' = 0 /\ map' = <<>>
            /\ pc' = [pc EXCEPT ![p].at = "body"]
            /\ jobs' = jobs
       ELSE /\ UNCHANGED <<cache, oldCache, size, map>>
            /\ pc' = [pc EXCEPT ![p].at = "rejecting"]
            /\ jobs' = Append(jobs, p)
    /\ UNCHANGED <<permits, waiters, done>>
    /\ UNCHANGED <<maxSize, maxAge, onEviction, now, op, ret, notes, rotated,
                   lastSet, trace, error, result, config, statements, recency, iter>>

\* how the rest of the body ends: "ok", or "late" (a pragma or
\* onCreateConnection threw)
InitEndings == {"ok", "late"}

\* the body of init() ends after the pragmas and onCreateConnection (lines
\* 378-392): the callback of runExclusive has returned or thrown, and
\* runExclusive resumes in a later turn
InitEnd(p, o) ==
    /\ pc[p] = [at |-> "body", call |-> "init"]
    /\ pc' = [pc EXCEPT ![p].at = IF o = "ok" THEN "resolving" ELSE "rejecting"]
    /\ jobs' = Append(jobs, p)
    /\ UNCHANGED <<permits, waiters, done>>
    /\ UNCHANGED <<db, connection, result, config, statements, recency, iter>>
    /\ UNCHANGED lruVars

\* runExclusive resumes after its callback: the lock is released, which
\* queues the turn of the oldest waiter, and the promise of runExclusive
\* settles, which queues the turn in which init() or destroy() goes on after
\* its await
RunExclusiveEnd(p) ==
    /\ Turn(p)
    /\ pc[p].at \in {"resolving", "rejecting"}
    /\ releaser([pc EXCEPT ![p].at = IF pc[p].at = "resolving" THEN "resolved"
                                     ELSE "rejected"],
                Tail(jobs), <<p>>)
    /\ UNCHANGED <<db, connection, done, result, config, statements, recency, iter>>
    /\ UNCHANGED lruVars

\* init() or destroy() goes on after the await of line 352 or 429: it
\* resolves or rejects
Settle(p) ==
    /\ Turn(p)
    /\ pc[p].at \in {"resolved", "rejected"}
    /\ jobs' = Tail(jobs)
    /\ pc' = [pc EXCEPT ![p] = Idle]
    /\ done' = Done(p, pc[p].call, IF pc[p].at = "resolved" THEN "ok" ELSE "error")
    /\ UNCHANGED <<permits, waiters, db, connection>>
    /\ UNCHANGED <<result, config, statements, recency, iter>>
    /\ UNCHANGED lruVars

\* acquireConnection() is called: line 397 asks for the lock
AcquireCall(p) ==
    /\ pc[p] = Idle
    /\ mutexAcquire(p, "acquire")
    /\ UNCHANGED <<db, connection, done, result, config, statements, recency, iter>>
    /\ UNCHANGED lruVars

\* Mutex.acquire() of async-mutex resumes with the lock and returns the
\* releaser: acquireConnection() goes on after its await in the turn after
MutexAcquired(p) ==
    /\ Turn(p)
    /\ pc[p] = [at |-> "granted", call |-> "acquire"]
    /\ jobs' = Append(Tail(jobs), p)
    /\ pc' = [pc EXCEPT ![p].at = "acquired"]
    /\ UNCHANGED <<permits, waiters, db, connection, done>>
    /\ UNCHANGED <<result, config, statements, recency, iter>>
    /\ UNCHANGED lruVars

\* acquireConnection() resumes with the lock: lines 398-406
AcquireRun(p) ==
    /\ Turn(p)
    /\ pc[p] = [at |-> "acquired", call |-> "acquire"]
    /\ IF ~connection
       THEN /\ releaser([pc EXCEPT ![p] = Idle], Tail(jobs), <<>>)
            /\ done' = Done(p, "acquire", "error")
       ELSE /\ pc' = [pc EXCEPT ![p].at = "holding"]
            /\ jobs' = Tail(jobs)
            /\ done' = Done(p, "acquire", "ok")
            /\ UNCHANGED <<permits, waiters>>
    /\ UNCHANGED <<db, connection, result, config, statements, recency, iter>>
    /\ UNCHANGED lruVars

\* releaseConnection() called by the caller that holds the connection
ReleaseConnection(p) ==
    /\ pc[p].at = "holding"
    /\ mutexRelease([pc EXCEPT ![p] = Idle])
    /\ done' = Done(p, "release", "ok")
    /\ UNCHANGED <<db, connection, result, config, statements, recency, iter>>
    /\ UNCHANGED lruVars

\* destroy() running its body at once, without the lock
DestroyCallUnlocked(p) ==
    /\ pc[p] = Idle
    /\ cache' = <<>> /\ oldCache' = <<>> /\ size' = 0 /\ map' = <<>>
    /\ db' = FALSE
    /\ connection' = FALSE
    /\ done' = Done(p, "destroy", "ok")
    /\ UNCHANGED <<permits, waiters, jobs, pc, result, config, statements, recency, iter>>
    /\ UNCHANGED <<maxSize, maxAge, onEviction, now, op, ret, notes, rotated,
                   lastSet, trace, error>>

\* destroy() is called: runExclusive asks for the lock
DestroyCall(p) ==
    /\ pc[p] = Idle
    /\ mutexAcquire(p, "destroy")
    /\ UNCHANGED <<db, connection, done, result, config, statements, recency, iter>>
    /\ UNCHANGED lruVars

\* how the body of destroy() ends: "ok", or "close" (db.close() threw)
DestroyOutcomes == {"ok", "close"}

\* runExclusive resumes with the lock and calls the callback of destroy(),
\* which awaits nothing (lines 430-437): the cache is cleared, then the
\* database is closed when there is one; when close throws, #db and
\* #connection stay as they are.  runExclusive resumes in a later turn
DestroyRun(p, o) ==
    /\ Turn(p)
    /\ pc[p] = [at |-> "granted", call |-> "destroy"]
    /\ o = "close" => db
    /\ LET b == clear(This)
       IN cache' = b.cache /\ oldCache' = b.oldCache /\ size' = b.size
    /\ map' = <<>>
    /\ db' = IF o = "close" THEN db ELSE FALSE
    /\ connection' = IF o = "close" THEN connection ELSE FALSE
    /\ jobs' = Append(Tail(jobs), p)
    /\ pc' = [pc EXCEPT ![p].at = IF o = "close" THEN "rejecting" ELSE "resolving"]
    /\ UNCHANGED <<permits, waiters, done>>
    /\ UNCHANGED <<maxSize, maxAge, onEviction, now, op, ret, notes, rotated,
                   lastSet, trace, error, result, config, statements, recency, iter>>

\* ---- errors (module "#errors.js") ---------------------------------------
SQLITE_ERROR == 1
SQLITE_BUSY == 5
SQLITE_LOCKED == 6
SQLITE_NOMEM == 7
SQLITE_CORRUPT == 11
SQLITE_SCHEMA == 17
SQLITE_CONSTRAINT == 19
SQLITE_CONSTRAINT_FOREIGNKEY == 787
SQLITE_CONSTRAINT_UNIQUE == 2067

\* An exception is a record: whether it is an Error, whether it is an instance
\* of NodeSqliteError (and so has its methods), whether it has the properties
\* code, errcode and errstr, and its code, errcode and message.

\* an Error as node:sqlite throws it: the three properties, no method
RawSqliteError(code, errcode, message) ==
    [isError |-> TRUE, instance |-> FALSE, fields |-> TRUE,
     code |-> code, errcode |-> errcode, message |-> message]

\* new NodeSqliteError(code, errcode, errstr, message)
NodeSqliteError(code, errcode, message) ==
    [isError |-> TRUE, instance |-> TRUE, fields |-> TRUE,
     code |-> code, errcode |-> errcode, message |-> message]

\* an Error without the three properties
PlainError(message) ==
    [isError |-> TRUE, instance |-> FALSE, fields |-> FALSE,
     code |-> "", errcode |-> 0, message |-> message]

\* the TypeError of calling error.getPrimaryResultCode() on an object that
\* has no such method
NotAFunction == PlainError("error.getPrimaryResultCode is not a function")

isNodeSqliteError(e) ==
    e.instance \/ (e.isError /\ e.fields /\ e.code = "ERR_SQLITE_ERROR")

\* getPrimaryResultCode taking the bits above the low byte
getPrimaryResultCodeHigh(e) == e.errcode \div 256

\* errcode & 0xff
getPrimaryResultCode(e) == e.errcode % 256

\* this.errcode > 255 ? this.errcode : undefined
getExtendedResultCode(e) == IF e.errcode > 255 THEN e.errcode ELSE Undefined

isConstraintError(e) == getPrimaryResultCode(e) = SQLITE_CONSTRAINT

isDatabaseLocked(e) ==
    getPrimaryResultCode(e) = SQLITE_BUSY \/ getPrimaryResultCode(e) = SQLITE_LOCKED

isCorruption(e) == getPrimaryResultCode(e) = SQLITE_CORRUPT

fromNodeSqlite(e) ==
    NodeSqliteError(IF e.code # "" THEN e.code ELSE "ERR_SQLITE_ERROR",
                    IF e.errcode # 0 THEN e.errcode ELSE SQLITE_ERROR,
                    e.message)

\* what the database may throw from prepare and from run/all: node:sqlite's
\* own errors, the same conditions thrown as NodeSqliteError by a database
\* object that wraps them, an error with another code, and a plain Error
DbErrors ==
    { RawSqliteError("ERR_SQLITE_ERROR", SQLITE_CONSTRAINT_UNIQUE, "UNIQUE constraint failed"),
      RawSqliteError("ERR_SQLITE_ERROR", SQLITE_CONSTRAINT_FOREIGNKEY,
                     "FOREIGN KEY constraint failed"),
      RawSqliteError("ERR_SQLITE_ERROR", SQLITE_BUSY, "database is locked"),
      RawSqliteError("ERR_SQLITE_ERROR", SQLITE_NOMEM, "out of memory"),
      RawSqliteError("ERR_OTHER", SQLITE_CONSTRAINT_UNIQUE, "UNIQUE constraint failed"),
      NodeSqliteError("ERR_SQLITE_ERROR", SQLITE_CONSTRAINT_UNIQUE, "UNIQUE constraint failed"),
      NodeSqliteError("ERR_SQLITE_ERROR", SQLITE_LOCKED, "database table is locked"),
      NodeSqliteError("ERR_SQLITE_ERROR", SQLITE_NOMEM, "out of memory"),
      NodeSqliteError("ERR_SQLITE_ERROR", SQLITE_ERROR, "near selec: syntax error"),
      NodeSqliteError("ERR_SQLITE_ERROR", SQLITE_SCHEMA, "database schema has changed"),
      PlainError("invalid argument") }

\* ---- SqliteConnection ---------------------------------------------------
\* the catch block of executeQuery: what is thrown for the exception e
executeQueryCatch(e) ==
    IF isNodeSqliteError(e)
    THEN IF ~e.instance THEN NotAFunction
         ELSE IF getPrimaryResultCode(e) = SQLITE_NOMEM
         THEN NodeSqliteError("ERR_SQLITE_OOM", SQLITE_NOMEM,
                              "Database operation failed due to memory constraints. Consider reducing cache size or query complexity.")
         ELSE IF getPrimaryResultCode(e) \in {SQLITE_BUSY, SQLITE_LOCKED}
         THEN NodeSqliteError("ERR_SQLITE_LOCKED", getPrimaryResultCode(e),
                              "Database is locked. Consider adjusting busy timeout or check for concurrent access.")
         ELSE e
    ELSE IF e.isError /\ e.fields THEN fromNodeSqlite(e)
    ELSE e

\* #prepareStatement preparing without reading the cache
prepareStatementNoRead(b, m, sql, h, e) ==
    IF e = NoError
    THEN [b |-> set(b, sql, h, Undefined), map |-> MapSet(m, sql, MapEntry(sql, h)),
          hit |-> FALSE, prepares |-> 1, handle |-> h, stored |-> TRUE,
          thrown |-> NoError]
    ELSE [b |-> b, map |-> m, hit |-> FALSE, prepares |-> 1, handle |-> Undefined,
          stored |-> FALSE, thrown |-> e]

\* #prepareStatement(sql): db.prepare, when called, returns the handle h if e
\* is NoError and throws e otherwise.  A connection without a statement cache
\* (b.maxSize is undefined: none was constructed) prepares on every call and
\* reports SQLITE_ERROR and SQLITE_SCHEMA as errors of the statement; one with
\* a statement cache (an EnhancedStatementCache over a QuickLRU with mirror m)
\* reads it first, stores what it prepares and clears it on SQLITE_NOMEM
prepareStatement(b, m, sql, h, e) ==
    LET g == get(b, sql)
    IN IF b.maxSize = Undefined
       THEN [b |-> b, map |-> m, hit |-> FALSE, prepares |-> 1,
             handle |-> IF e = NoError THEN h ELSE Undefined, stored |-> FALSE,
             thrown |-> IF e = NoError THEN NoError
                        ELSE IF isNodeSqliteError(e) /\ ~e.instance THEN NotAFunction
                        ELSE IF isNodeSqliteError(e) /\ getPrimaryResultCode(e) = SQLITE_ERROR
                        THEN NodeSqliteError("ERR_SQLITE_SYNTAX", SQLITE_ERROR,
                                             "SQL syntax error in statement: " \o sql)
                        ELSE IF isNodeSqliteError(e) /\ getPrimaryResultCode(e) = SQLITE_SCHEMA
                        THEN NodeSqliteError("ERR_SQLITE_SCHEMA", SQLITE_SCHEMA,
                                             "Table not found in statement: " \o sql)
                        ELSE e]
       ELSE IF g.ret # Undefined
       THEN [b |-> g, map |-> m, hit |-> TRUE, prepares |-> 0, handle |-> g.ret,
             stored |-> FALSE, thrown |-> NoError]
       ELSE IF e = NoError
       THEN [b |-> set(g, sql, h, Undefined), map |-> MapSet(m, sql, MapEntry(sql, h)),
             hit |-> FALSE, prepares |-> 1, handle |-> h, stored |-> TRUE,
             thrown |-> NoError]
       ELSE IF isNodeSqliteError(e) /\ ~e.instance
       THEN [b |-> g, map |-> m, hit |-> FALSE, prepares |-> 1, handle |-> Undefined,
             stored |-> FALSE, thrown |-> NotAFunction]
       ELSE IF isNodeSqliteError(e) /\ getPrimaryResultCode(e) = SQLITE_NOMEM
       THEN [b |-> clear(g), map |-> <<>>, hit |-> FALSE, prepares |-> 1,
             handle |-> Undefined, stored |-> FALSE,
             thrown |-> NodeSqliteError("ERR_SQLITE_OOM", SQLITE_NOMEM,
                                        "Failed to prepare statement due to memory constraints. Cache has been cleared.")]
       ELSE [b |-> g, map |-> m, hit |-> FALSE, prepares |-> 1, handle |-> Undefined,
             stored |-> FALSE, thrown |-> e]

\* the connection is in use: a caller holds it, or the body of init() has
\* created it (its pragmas and onCreateConnection run queries on it)
InUse == \E p \in Procs : pc[p].at \in {"holding", "body"}

\* the messages of the errors drawn that contain the text "out of memory"
OutOfMemoryTexts == {"out of memory"}

\* the catch block of streamQuery: what is thrown for the exception e
streamQueryCatch(e) ==
    IF isNodeSqliteError(e) THEN e
    ELSE IF e.isError /\ e.fields THEN fromNodeSqlite(e)
    ELSE e

\* the generator of streamQuery(sql), suspended at a row
Stream(sql) == [kind |-> "stream", phase |-> "rows", target |-> sql,
                items |-> <<>>, pos |-> 0]

\* the catch block of streamQuery clears the cache for e
streamQueryClears(e) ==
    e # NoError /\ isNodeSqliteError(e) /\ e.message \in OutOfMemoryTexts

\* one next() of the generator of streamQuery; first tells whether it is the
\* first one, which tests the query and prepares the statement without the
\* cache; e is what db.prepare or the statement's iterate throws, more tells
\* whether there is another row.  The cache is cleared when a SQLite error's
\* message includes "out of memory"
streamNext(sql, first, select, more, e) ==
    LET refused == first /\ ~select
        cleared == ~refused /\ streamQueryClears(e)
        b == IF cleared THEN clear(This) ELSE This
    IN /\ cache' = b.cache
       /\ oldCache' = b.oldCache
       /\ size' = b.size
       /\ notes' = b.notes
       /\ rotated' = b.rotated
       /\ map' = IF cleared THEN <<>> ELSE map
       /\ result' = [hit |-> FALSE,
                     prepares |-> IF first /\ select THEN 1 ELSE 0,
                     handle |-> Undefined, stored |-> FALSE,
                     stage |-> IF refused THEN "select"
                               ELSE IF e # NoError THEN "stream"
                               ELSE IF more THEN "row" ELSE "none",
                     cause |-> IF refused THEN NoError ELSE e,
                     thrown |-> IF refused
                                THEN PlainError("SQLite driver only supports streaming of SELECT queries")
                                ELSE IF e = NoError THEN NoError
                                ELSE streamQueryCatch(e)]
       /\ iter' = IF ~refused /\ e = NoError /\ more THEN Stream(sql) ELSE NoIter
       /\ UNCHANGED <<maxSize, maxAge, onEviction, now, ret, lastSet, trace, error>>
       /\ UNCHANGED <<driverVars, config, statements, recency>>

\* streamQuery(sql) is called by the user of the connection and the first
\* next() of its generator runs; select tells whether the query is a SELECT.
\* The call alone runs nothing of the method.  One generator is followed: an
\* earlier one that is still suspended is never resumed
StreamQuery(sql, select, more, e) ==
    /\ connection
    /\ InUse
    /\ streamNext(sql, TRUE, select, more, e)
    /\ op' = Call("streamQuery", sql, Undefined)

\* a later next() of the generator of streamQuery
StreamNext(more, e) ==
    /\ iter.kind = "stream"
    /\ streamNext(iter.target, FALSE, TRUE, more, e)
    /\ op' = Call("streamNext", iter.target, Undefined)

\* executeQuery(sql) by the user of the connection: pe is what db.prepare
\* would throw, re what the statement's run or all throws
ExecuteQuery(sql, h, pe, re) ==
    /\ connection
    /\ InUse
    /\ LET r == prepareStatement(This, map, sql, h, pe)
           caught == IF r.thrown # NoError THEN r.thrown ELSE re
       IN /\ cache' = r.b.cache
          /\ oldCache' = r.b.oldCache
          /\ size' = r.b.size
          /\ notes' = r.b.notes
          /\ rotated' = r.b.rotated
          /\ map' = r.map
          /\ result' = [hit |-> r.hit, prepares |-> r.prepares, handle |-> r.handle,
                        stored |-> r.stored,
                        stage |-> IF r.thrown # NoError THEN "prepare"
                                  ELSE IF re # NoError THEN "run" ELSE "none",
                        cause |-> IF r.thrown # NoError THEN pe ELSE re,
                        thrown |-> IF caught = NoError THEN NoError
                                   ELSE executeQueryCatch(caught)]
    /\ op' = Call("executeQuery", sql, Undefined)
    /\ UNCHANGED <<maxSize, maxAge, onEviction, now, ret, lastSet, trace, error>>
    /\ UNCHANGED <<driverVars, config, statements, recency, iter>>

\* ---- SpecConnection: the queries of the caller holding the connection ----
\* p1 holds the connection of an initialised driver.  The connection has the
\* statement cache that was configured, an EnhancedStatementCache without
\* maxAge, whose onEviction is always a function, or it has none (stmntCache
\* was not set)
InitConnection ==
    /\ \/ NewLRU({Infinity}) /\ onEviction
       \/ /\ cache = <<>> /\ oldCache = <<>> /\ size = 0 /\ map = <<>>
          /\ maxSize = Undefined /\ maxAge = Undefined /\ onEviction = FALSE
          /\ now = 1
          /\ op = Call("none", NoKey, Undefined)
          /\ ret = Undefined /\ notes = <<>> /\ rotated = FALSE
          /\ lastSet = [k \in Keys |-> NoSet]
          /\ trace = <<>> /\ error = "none"
    /\ permits = 0
    /\ waiters = <<>>
    /\ jobs = <<>>
    /\ pc = [p \in Procs |-> IF p = "p1" THEN [at |-> "holding", call |-> "acquire"]
                            ELSE Idle]
    /\ db = TRUE
    /\ connection = TRUE
    /\ done = Done("p1", "acquire", "ok")
    /\ result = NoResult
    /\ config = NoConfig
    /\ statements = <<>>
    /\ recency = NoRecency /\ iter = NoIter

\* a query fails in prepare, fails in run or all, or does not fail
Failures ==
    {<<NoError, NoError>>} \cup { <<e, NoError>> : e \in DbErrors }
                           \cup { <<NoError, e>> : e \in DbErrors }

NextConnection ==
    \/ \E sql \in TTLKeys : \E h \in ValuesOf(sql) : \E f \in Failures :
          ExecuteQuery(sql, h, f[1], f[2])
    \/ \E sql \in TTLKeys : \E select, more \in BOOLEAN : \E e \in {NoError} \cup DbErrors :
          StreamQuery(sql, select, more, e)
    \/ \E more \in BOOLEAN : \E e \in {NoError} \cup DbErrors : StreamNext(more, e)

SpecConnection == InitConnection /\ [][NextConnection]_vars

\* ---- SpecDriver: the callers of one SqliteDriver ------------------------
\* the driver before init, with the statement cache of an
\* EnhancedStatementCache, which always passes an onEviction
InitDriver == New({Infinity}) /\ maxSize = MaxSizeBound /\ onEviction

\* the statement that the pragmas, onCreateConnection and the holder of the
\* connection execute
DriverSql == "a"

NextDriver ==
    \/ \E p \in Procs : InitCall(p)
    \/ \E p \in Procs : InitStart(p)
    \/ \E p \in Procs : \E o \in InitOutcomes : InitRun(p, o)
    \/ \E p \in Procs : \E o \in InitEndings : InitEnd(p, o)
    \/ \E p \in Procs : AcquireCall(p)
    \/ \E p \in Procs : MutexAcquired(p)
    \/ \E p \in Procs : AcquireRun(p)
    \/ \E p \in Procs : ReleaseConnection(p)
    \/ \E p \in Procs : DestroyCall(p)
    \/ \E p \in Procs : \E o \in DestroyOutcomes : DestroyRun(p, o)
    \/ \E p \in Procs : RunExclusiveEnd(p)
    \/ \E p \in Procs : Settle(p)
    \/ ExecuteQuery(DriverSql, 1, NoError, NoError)

SpecDriver == InitDriver /\ [][NextDriver]_vars

\* The promise jobs run, the body of init goes on after each of its awaits,
\* and a caller that holds the connection releases it.
FairDriver ==
    \A p \in Procs :
        /\ WF_vars(InitStart(p))
        /\ WF_vars(MutexAcquired(p))
        /\ WF_vars(Settle(p))
        /\ WF_vars(\E o \in InitOutcomes : InitRun(p, o))
        /\ WF_vars(\E o \in InitEndings : InitEnd(p, o))
        /\ WF_vars(AcquireRun(p))
        /\ WF_vars(ReleaseConnection(p))
        /\ WF_vars(\E o \in DestroyOutcomes : DestroyRun(p, o))
        /\ WF_vars(RunExclusiveEnd(p))

SpecDriverFair == SpecDriver /\ FairDriver

\* ---- C1 -----------------------------------------------------------------
\* C1: after every call the reported size is at most the current maxSize
SizeBound == sizeGetter(This) <= maxSize

\* the bound is met: three live keys are held while maxSize is 2
SizeBoundWitness ==
    /\ maxSize = 2
    /\ size = 1
    /\ Cardinality(MapKeys(cache) \cup MapKeys(oldCache)) = 3
    /\ sizeGetter(This) = 2

\* ---- C2 -----------------------------------------------------------------
\* the entry of k's most recent set is in force: k was not deleted or cleared,
\* not named in a notification and has not reached its expiry since
InForce(k) ==
    /\ lastSet[k] # NoSet
    /\ lastSet[k].expiry # Undefined => lastSet[k].expiry > now

\* C2: with an onEviction callback, while the most recent set(k, v) is in force
\* get(k) returns v, and a get(k) just made has returned v
ReadYourWrite ==
    onEviction =>
        /\ \A k \in Keys : InForce(k) => get(This, k).ret = lastSet[k].value
        /\ (op.name = "get" /\ InForce(op.key)) => ret = lastSet[op.key].value

\* get(a) has returned the value last set while an older copy of a, with
\* another value, sits in the previous generation
ReadYourWriteWitness ==
    /\ onEviction
    /\ op.name = "get"
    /\ InForce(op.key)
    /\ ret = lastSet[op.key].value
    /\ MapHas(cache, op.key)
    /\ MapHas(oldCache, op.key)
    /\ MapGet(oldCache, op.key).value # ret

\* ---- C3 -----------------------------------------------------------------
NotFound(b, k) ==
    /\ get(b, k).ret = Undefined
    /\ has(b, k).ret = FALSE
    /\ peek(b, k).ret = Undefined

\* C3 as claimed: after a set or get that rotated, every key notified during
\* the rotation is not-found for get, has and peek
NotifiedKeysGone ==
    (rotated /\ op.name \in {"set", "get"}) =>
        \A i \in 1..Len(notes) : NotFound(This, notes[i].key)

\* the key of a notification was also held by the active generation that the
\* rotation made the previous one (it is the key being set, or was set again
\* since the rotation before)
Shadowing(k) == MapHas(cache, k) \/ (op'.name = "set" /\ op'.key = k)

\* C3 amended: after a set or get that rotated, a notified key is not-found
\* for get, has and peek unless the active generation held it too; then the
\* notified entry was the stale previous copy and get returns the active
\* entry (when that has not expired)
NotifiedEntriesGone ==
    [][(rotated' /\ op'.name \in {"set", "get"}) =>
          \A i \in 1..Len(notes') :
              LET k == notes'[i].key
              IN IF Shadowing(k)
                 THEN /\ MapHas(oldCache, k)
                      /\ notes'[i].value = MapGet(oldCache, k).value
                      /\ get(ThisNext, k).ret =
                            IF op'.name = "set" /\ op'.key = k THEN op'.arg
                            ELSE IF isExpired(MapGet(cache, k)) THEN Undefined
                            ELSE MapGet(cache, k).value
                 ELSE NotFound(ThisNext, k)]_vars

\* a rotation has notified two keys: one is gone, the other is still held
NotifiedEntriesWitness ==
    /\ rotated
    /\ op.name = "set"
    /\ \E i, j \in 1..Len(notes) :
          /\ NotFound(This, notes[i].key)
          /\ ~NotFound(This, notes[j].key)
          /\ get(This, notes[j].key).ret # notes[j].value

\* ---- C4 -----------------------------------------------------------------
\* C4: the mirror follows every facade set, delete and clear: a key just
\* deleted is not among keys(), after clear keys() is empty, a key just set is
\* in the mirror with its value
MirrorFollowsCalls ==
    /\ op.name = "delete" => ~MapHas(map, op.key)
    /\ op.name = "clear" => map = <<>>
    /\ op.name = "set" => MapHas(map, op.key) /\ MapGet(map, op.key).value = op.arg

\* ---- C5 -----------------------------------------------------------------
\* C5: keys() yields a key exactly when has(key) would be true, so it never
\* yields more than maxSize keys
MirrorIsLive ==
    /\ \A k \in Keys : MapHas(map, k) <=> has(This, k).ret
    /\ Len(keys) <= maxSize

\* ---- C6 -----------------------------------------------------------------
\* the entry of k's most recent set is still tracked and has reached its expiry
Due(k) ==
    /\ lastSet[k] # NoSet
    /\ lastSet[k].expiry # Undefined
    /\ lastSet[k].expiry <= now

\* C6: once the entry of a set has reached its expiry, get returns not-found
\* and has false; the get, has or peek that visits it notifies it exactly once,
\* with its key and value, and removes it from both generations, so that it is
\* never notified again
TTLExpiry ==
    /\ [](\A k \in Keys :
            Due(k) => get(This, k).ret = Undefined /\ has(This, k).ret = FALSE)
    /\ [][\A k \in Keys :
            (onEviction /\ Due(k) /\ op'.key = k
                /\ op'.name \in {"get", "has", "peek"}) =>
                /\ notes' = << [key |-> k, value |-> lastSet[k].value] >>
                /\ IF op'.name = "has" THEN ret' = FALSE ELSE ret' = Undefined
                /\ ~MapHas(cache', k)
                /\ ~MapHas(oldCache', k)
                /\ lastSet'[k] = NoSet]_vars

\* a get at the expiry time has found the entry expired and notified it
TTLExpiryWitness ==
    /\ onEviction
    /\ op.name = "get"
    /\ ret = Undefined
    /\ notes # <<>>
    /\ notes[1].key = op.key
    /\ ~rotated
    /\ now > 1

\* ---- C7, C8 -------------------------------------------------------------
Expired(e) == e.expiry # Undefined /\ e.expiry <= now

\* the live entries, oldest first
LiveAscending ==
    SelectSeq(oldCache, LAMBDA e : ~MapHas(cache, e.key) /\ ~Expired(e))
        \o SelectSeq(cache, LAMBDA e : ~Expired(e))

\* the expired entries a full traversal meets
ExpiredMet ==
    SelectSeq(oldCache, LAMBDA e : ~MapHas(cache, e.key) /\ Expired(e))
        \o SelectSeq(cache, LAMBDA e : Expired(e))

\* C7 as claimed: resize(n) with 0 < n < s, s the reported size, notifies
\* exactly s - n times
ResizeCountBySize ==
    [][(onEviction /\ op'.name = "resize" /\ op'.arg < sizeGetter(This)) =>
          Len(notes') = sizeGetter(This) - op'.arg]_vars

\* C7 amended: resize(n) with 0 < n < L, L the number of live entries, notifies
\* exactly L - n evictions (after one notification per expired entry met), each
\* for another key, the keys of the L - n oldest live entries
ResizeCountByLive ==
    [][(onEviction /\ op'.name = "resize" /\ op'.arg < Len(LiveAscending)) =>
          LET r == Len(LiveAscending) - op'.arg
              x == Len(ExpiredMet)
          IN /\ Len(notes') = x + r
             /\ \A i, j \in 1..Len(notes') : notes'[i].key = notes'[j].key => i = j
             /\ \A i \in 1..r : notes'[x + i].key = LiveAscending[i].key]_vars

\* resize(1) has evicted two entries, one more than any reported size allows
ResizeCountWitness ==
    /\ onEviction
    /\ op = Call("resize", NoKey, 1)
    /\ Len(notes) = 2
    /\ notes[1].key # notes[2].key

\* C8: resize(n) with more than n live entries notifies the first
\* liveCount - n entries of the oldest-first order, in that order; afterwards
\* get returns not-found for each of them and its value for every other entry
ResizeEvictsOldest ==
    [][(onEviction /\ op'.name = "resize" /\ op'.arg < Len(LiveAscending)) =>
          LET asc == LiveAscending
              r == Len(asc) - op'.arg
          IN /\ Len(notes') >= r
             /\ SubSeq(notes', Len(notes') - r + 1, Len(notes'))
                    = [i \in 1..r |-> Note(asc[i])]
             /\ \A i \in 1..r : get(ThisNext, asc[i].key).ret = Undefined
             /\ \A i \in (r + 1)..Len(asc) :
                    get(ThisNext, asc[i].key).ret = asc[i].value]_vars

\* resize(1) has evicted the two oldest of three entries and kept the newest
ResizeEvictsOldestWitness ==
    /\ onEviction
    /\ op.name = "resize"
    /\ maxSize = 1
    /\ Len(notes) = 2
    /\ \A i \in 1..Len(notes) : NotFound(This, notes[i].key)
    /\ Len(oldCache) = 1
    /\ get(This, oldCache[1].key).ret = oldCache[1].value

\* ---- C9 -----------------------------------------------------------------
After(n) == trace = SubSeq(Scenario, 1, n)

\* C9: on a fresh cache with maxSize 2, along set(a,1) set(b,2) get(a)
\* set(c,3) get(b) get(a) get(c): set(b,2) rotates without a notification,
\* get(a) returns 1 and promotes a, set(c,3) rotates notifying (b,2) alone and
\* leaves previous = {a:1, c:3}, then get(b) is not-found, get(a) is 1, get(c) is 3
ScenarioHolds ==
    onEviction =>
        /\ After(2) => rotated /\ notes = <<>>
        /\ After(3) => ret = 1 /\ MapHas(cache, "a") /\ ~MapHas(oldCache, "a")
        /\ After(4) => /\ rotated
                       /\ notes = << [key |-> "b", value |-> 2] >>
                       /\ cache = <<>>
                       /\ oldCache = << Entry("a", 1, Undefined), Entry("c", 3, Undefined) >>
        /\ After(5) => ret = Undefined
        /\ After(6) => ret = 1
        /\ After(7) => ret = 3

\* the whole scenario has run
ScenarioWitness == onEviction /\ After(7) /\ ret = 3

\* ---- C10 ----------------------------------------------------------------
InPreviousOnly(k) ==
    MapHas(oldCache, k) /\ ~MapHas(cache, k) /\ ~Expired(MapGet(oldCache, k))

\* C10: for a non-expired key k held in the previous generation only, peek(k)
\* and has(k) change nothing, so that the next rotation evicts k as it evicts
\* every key of previous that was not read with get; get(k) returns the value
\* and moves k into the active generation, and a rotation keeps every key of
\* the active generation retrievable
RecencyOfGetAndPeek ==
    [][/\ \A k \in Keys : InPreviousOnly(k) =>
            /\ (op'.name \in {"peek", "has"} /\ op'.key = k) =>
                  /\ cache' = cache /\ oldCache' = oldCache /\ size' = size
                  /\ notes' = <<>> /\ ~rotated'
            /\ (op'.name \in {"set", "get"} /\ op'.key # k /\ rotated') =>
                  /\ NotFound(ThisNext, k)
                  /\ onEviction => Note(MapGet(oldCache, k)) \in
                                      { notes'[i] : i \in 1..Len(notes') }
            /\ (op'.name = "get" /\ op'.key = k) =>
                  /\ ret' = MapGet(oldCache, k).value
                  /\ IF rotated' THEN MapHas(oldCache', k) ELSE MapHas(cache', k)
                  /\ peek(ThisNext, k).ret = ret'
       /\ \A k \in Keys :
            (/\ MapHas(cache, k) /\ ~Expired(MapGet(cache, k))
             /\ op'.name \in {"set", "get"} /\ op'.key # k /\ rotated') =>
                  /\ MapHas(oldCache', k)
                  /\ peek(ThisNext, k).ret = MapGet(cache, k).value]_vars

\* a was read with get, b with peek and has; the rotation that set(c,3) then
\* caused has evicted b and kept a
RecencyWitness ==
    /\ onEviction
    /\ trace = PeekScenario
    /\ rotated
    /\ notes = << [key |-> "b", value |-> 2] >>
    /\ peek(This, "a").ret = 1
    /\ NotFound(This, "b")

\* ---- C11 ----------------------------------------------------------------
\* C11: after clear() the reported size is 0, get, has and peek report
\* not-found for every key, keys() of the facade is empty, and a second
\* clear() would change neither generation, the active-count nor the mirror
ClearEmpties ==
    op.name = "clear" =>
        /\ sizeGetter(This) = 0
        /\ \A k \in Keys : NotFound(This, k)
        /\ keys = <<>>
        /\ LET b == clear(This)
           IN b.cache = cache /\ b.oldCache = oldCache /\ b.size = size
                /\ b.maxSize = maxSize

\* clear() has run on a facade that had been resized and whose clock had
\* advanced since construction
ClearEmptiesWitness ==
    /\ op.name = "clear"
    /\ now > 1
    /\ maxSize = 1
    /\ map = <<>>
    /\ cache = <<>>
    /\ oldCache = <<>>

\* ---- C12 ----------------------------------------------------------------
\* the key the callback was called with when it threw is in neither generation
NotifiedKeyDeleted ==
    ~MapHas(cache, notes[Len(notes)].key) /\ ~MapHas(oldCache, notes[Len(notes)].key)

\* C12 as claimed: when the callback has thrown out of a get, set, has, peek
\* or resize, the active-count equals the number of keys in the active
\* generation, an expired entry that was notified is already deleted, and a
\* set that was rotating has already swapped the generations
ThrowAfterChange ==
    error = "onEviction" =>
        /\ size = Len(cache)
        /\ op.name \in {"has", "peek"} => NotifiedKeyDeleted
        /\ op.name = "set" => cache = <<>> /\ MapHas(oldCache, op.key)

\* ---- C13 ----------------------------------------------------------------
\* the options the claim rejects: maxSize missing, zero or negative, or
\* maxAge exactly 0
Rejected(o) ==
    \/ ~o.maxSize.given
    \/ o.maxSize.value <= 0
    \/ (o.maxAge.given /\ o.maxAge.value = 0)

\* C13: the constructor raises a configuration error, and no cache exists,
\* exactly for the rejected options; otherwise the cache has the maxSize
\* given and the maxAge given, or no expiry when maxAge is absent; and in a
\* cache without a default maxAge an entry set without a maxAge of its own
\* has no expiry and is found however far the clock has advanced
ConstructionChecked ==
    /\ op.name = "new" =>
          /\ (error = "TypeError") <=> Rejected(op.arg)
          /\ Rejected(op.arg) =>
                ~Constructed /\ maxSize = Undefined /\ cache = <<>> /\ oldCache = <<>>
          /\ ~Rejected(op.arg) =>
                /\ error = "none"
                /\ maxSize = op.arg.maxSize.value
                /\ maxAge = IF op.arg.maxAge.given THEN op.arg.maxAge.value
                            ELSE Infinity
    /\ (Constructed /\ onEviction /\ maxAge = Infinity) =>
          \A k \in TTLKeys :
             lastSet[k] # NoSet =>
                /\ lastSet[k].expiry = Undefined
                /\ get(This, k).ret = lastSet[k].value
                /\ has(This, k).ret = TRUE

\* the constructor was called with a valid maxSize and a maxAge of 0
ConstructionWitness ==
    /\ op.name = "new"
    /\ error = "TypeError"
    /\ op.arg.maxSize = Opt(MaxSizeBound)
    /\ op.arg.maxAge = Opt(0)

\* ---- C14 ----------------------------------------------------------------
\* C14: resize raises a configuration error exactly when its argument is
\* zero, negative or missing, and such a call changes neither generation,
\* the active-count nor maxSize and makes no notification
ResizeRejected ==
    /\ [](op.name = "resize" => ((error = "TypeError") <=> (op.arg <= 0)))
    /\ [][(op'.name = "resize" /\ error' = "TypeError") =>
             (UNCHANGED <<cache, oldCache, size, maxSize>> /\ notes' = <<>>)]_vars

\* a resize was rejected while an expired entry was held by a cache with a
\* callback
ResizeRejectedWitness ==
    /\ op.name = "resize"
    /\ error = "TypeError"
    /\ onEviction
    /\ \E i \in 1..Len(oldCache) : isExpired(oldCache[i])

\* ---- C15 ----------------------------------------------------------------
\* the keys for which has(key) would return true
LiveKeys == { k \in Keys : has(This, k).ret }

\* the keys stored in either generation, expired or not
HeldKeys == MapKeys(cache) \cup MapKeys(oldCache)

\* C15 as claimed: the reported size is the number of distinct keys for which
\* has(key) would return true
SizeCountsLive == sizeGetter(This) = Cardinality(LiveKeys)

\* C15: the reported size is the number of distinct keys stored in either
\* generation, a key in both counted once and an expired entry not yet
\* visited included, capped at maxSize
SizeCountsHeld ==
    sizeGetter(This) = IF Cardinality(HeldKeys) < maxSize THEN Cardinality(HeldKeys)
                       ELSE maxSize

\* has(k) has just returned true, as it would for each of the three keys
\* held, while the size reported is 2
SizeCountsHeldWitness ==
    /\ op.name = "has"
    /\ ret = TRUE
    /\ Cardinality(LiveKeys) = 3
    /\ Cardinality(HeldKeys) = 3
    /\ sizeGetter(This) = 2

\* ---- C16 ----------------------------------------------------------------
\* the generation m2 holds what m1 holds of every key but k, and nothing of k
WithoutKey(m1, m2, k) ==
    /\ ~MapHas(m2, k)
    /\ \A j \in Keys \ {k} :
          /\ MapHas(m2, j) <=> MapHas(m1, j)
          /\ MapHas(m1, j) => MapGet(m2, j) = MapGet(m1, j)

\* C16: delete(k) removes k from both generations and changes the entry of no
\* other key, decrements the active-count exactly when k was in the active
\* generation, returns true exactly when k was stored in a generation (expired
\* or not), notifies nothing, and leaves k not-found for get, has and peek
DeleteRemoves ==
    [][op'.name = "delete" =>
          /\ WithoutKey(cache, cache', op'.key)
          /\ WithoutKey(oldCache, oldCache', op'.key)
          /\ size' = IF MapHas(cache, op'.key) THEN size - 1 ELSE size
          /\ ret' = (MapHas(cache, op'.key) \/ MapHas(oldCache, op'.key))
          /\ notes' = <<>>
          /\ maxSize' = maxSize
          /\ NotFound(ThisNext, op'.key)]_vars

\* delete has returned true after the clock advanced, and both generations
\* still hold the entry of another key
DeleteRemovesWitness ==
    /\ op.name = "delete"
    /\ ret = TRUE
    /\ now > 1
    /\ cache # <<>>
    /\ oldCache # <<>>

\* ---- C17 ----------------------------------------------------------------
\* the entry of k that get, has and peek see after the step
StoredNext(k) ==
    IF MapHas(cache', k) THEN MapGet(cache', k) ELSE MapGet(oldCache', k)

\* C17 as claimed: set(k, v, {maxAge: m}) on the facade stores the entry of k
\* with the expiry now + m, whatever the default maxAge is
FacadeSetMaxAge ==
    [][\A k \in TTLKeys : \A v \in ValuesOf(k) : \A m \in 1..MaxAgeBound :
          QSet(k, v, m) => StoredNext(k).expiry = now + m]_vars

\* ---- C18 ----------------------------------------------------------------
\* C18: while a caller holds the connection, from its successful
\* acquireConnection to its releaseConnection, the lock is held, the
\* connection stays defined, every other caller is outside the driver or
\* waits for the lock (none holds the connection, runs under the lock or has
\* an init or destroy that released the lock and has yet to settle), and no
\* acquireConnection, init or destroy of another caller completes; and a
\* caller waiting in acquireConnection eventually leaves it, with the
\* connection or with its error
DriverExclusion ==
    /\ [](\A p \in Procs :
            pc[p].at = "holding" =>
                /\ isLocked
                /\ connection
                /\ done = Done(p, "acquire", "ok")
                /\ \A q \in Procs \ {p} : pc[q].at \in {"idle", "waiting"})
    /\ [][\A p \in Procs :
             (pc[p].at = "holding" /\ pc'[p].at = "holding") => done' = done]_vars
    /\ \A p \in Procs :
          (pc[p] = [at |-> "waiting", call |-> "acquire"])
              ~> (pc[p].at \in {"holding", "idle"})

\* a caller holds the connection while an acquireConnection and a destroy of
\* the two others wait
DriverExclusionWitness ==
    /\ pc["p1"].at = "holding"
    /\ pc["p2"] = [at |-> "waiting", call |-> "acquire"]
    /\ pc["p3"] = [at |-> "waiting", call |-> "destroy"]
    /\ waiters = <<"p3", "p2">>

\* ---- C19 ----------------------------------------------------------------
\* a preparation reads the cache first: when get(sql) finds a handle, that
\* handle is used and prepare is not called; otherwise prepare is called once,
\* and when it returns the handle is stored under sql, when it throws nothing
\* is stored and sql stays not-found
ReadsCacheFirst ==
    LET cached == get(This, op'.key).ret
    IN /\ result'.hit <=> (cached # Undefined)
       /\ result'.hit =>
             /\ result'.prepares = 0
             /\ result'.handle = cached
             /\ ~result'.stored
       /\ ~result'.hit =>
             /\ result'.prepares = 1
             /\ result'.stage # "prepare" =>
                   /\ result'.stored
                   /\ peek(ThisNext, op'.key).ret = result'.handle
                   /\ MapHas(map', op'.key)
             /\ result'.stage = "prepare" =>
                   /\ ~result'.stored
                   /\ NotFound(ThisNext, op'.key)

\* the part of C19 that holds: executeQuery(sql), which prepares through
\* #prepareStatement, reads the cache first
ExecuteQueryReadsCache ==
    [][(maxSize # Undefined /\ op'.name = "executeQuery") => ReadsCacheFirst]_vars

\* C19 as claimed: with a statement cache, every preparation of a SQL text,
\* by executeQuery or by streamQuery for a SELECT, reads the cache first,
\* uses the cached handle on a hit without calling prepare, and on a miss
\* calls prepare once and stores the new handle; when prepare fails nothing
\* is stored
PrepareReadsCache ==
    [][(/\ maxSize # Undefined
        /\ \/ op'.name = "executeQuery"
           \/ (op'.name = "streamQuery" /\ result'.stage # "select")) =>
          ReadsCacheFirst]_vars

\* a query has found its handle in the previous generation, the read has
\* promoted it and rotated the generations, and the other text is not cached
PrepareReadsCacheWitness ==
    /\ op.name = "executeQuery"
    /\ result.hit
    /\ result.prepares = 0
    /\ rotated
    /\ MapHas(oldCache, op.key)
    /\ MapGet(oldCache, op.key).value = result.handle
    /\ \E k \in TTLKeys \ {op.key} : NotFound(This, k)

\* ---- C20 ----------------------------------------------------------------
\* a SQLite constraint violation: the primary result code is SQLITE_CONSTRAINT
IsConstraint(e) ==
    e.isError /\ e.fields /\ getPrimaryResultCode(e) = SQLITE_CONSTRAINT

\* C20 as claimed: when the statement's run or all fails with a UNIQUE or
\* FOREIGN KEY constraint error, executeQuery throws an error with the
\* message of that error
ConstraintMessageKept ==
    (op.name = "executeQuery" /\ result.stage = "run" /\ IsConstraint(result.cause)) =>
        result.thrown.message = result.cause.message

\* ---- getPragmaStatements ------------------------------------------------
\* the text pushed for one pragma
Pragma(name, value) == "PRAGMA " \o name \o "=" \o value \o ";"

\* if (config.x) on an optional string option: undefined and "" are falsy
TruthyString(o) == o.given /\ o.value # ""

\* if (config.x) on an optional number option: undefined and 0 are falsy
TruthyNumber(o) == o.given /\ o.value # 0

\* typeof config.x === "boolean" on an optional boolean option
IsBoolean(o) == o.given

\* the statements in the order the function pushes them
getPragmaStatements(c) ==
    (IF TruthyString(c.journalMode)
        THEN <<Pragma("journal_mode", c.journalMode.value)>> ELSE <<>>)
    \o (IF TruthyString(c.synchronous)
        THEN <<Pragma("synchronous", c.synchronous.value)>> ELSE <<>>)
    \o (IF TruthyNumber(c.cacheSize)
        THEN <<Pragma("cache_size", ToString(c.cacheSize.value))>> ELSE <<>>)
    \o (IF TruthyNumber(c.mmapSize)
        THEN <<Pragma("mmap_size", ToString(c.mmapSize.value))>> ELSE <<>>)
    \o (IF TruthyString(c.tempStore)
        THEN <<Pragma("temp_store", c.tempStore.value)>> ELSE <<>>)
    \o (IF TruthyString(c.lockingMode)
        THEN <<Pragma("locking_mode", c.lockingMode.value)>> ELSE <<>>)
    \o (IF TruthyNumber(c.busyTimeout)
        THEN <<Pragma("busy_timeout", ToString(c.busyTimeout.value))>> ELSE <<>>)
    \o (IF IsBoolean(c.foreignKeys)
        THEN <<Pragma("foreign_keys", IF c.foreignKeys.value THEN "ON" ELSE "OFF")>>
        ELSE <<>>)
    \o (IF TruthyNumber(c.walAutocheckpoint)
        THEN <<Pragma("wal_autocheckpoint", ToString(c.walAutocheckpoint.value))>>
        ELSE <<>>)
    \o (IF IsBoolean(c.trustedSchema)
        THEN <<Pragma("trusted_schema", IF c.trustedSchema.value THEN "ON" ELSE "OFF")>>
        ELSE <<>>)

\* an optional option: left out, or one of the values
Optional(values) == {Unset} \cup {Opt(x) : x \in values}

\* the configurations the function is called with: every option left out or
\* given, a number option also given as 0, a boolean one as true and as false
PragmaConfigs ==
    [journalMode : Optional({"WAL"}),
     synchronous : Optional({"NORMAL"}),
     cacheSize : Optional({0, -64000}),
     mmapSize : Optional({0, 64000000}),
     tempStore : Optional({"MEMORY"}),
     lockingMode : Optional({"EXCLUSIVE"}),
     busyTimeout : Optional({0, 5000}),
     foreignKeys : Optional(BOOLEAN),
     walAutocheckpoint : Optional({0, 1000}),
     trustedSchema : Optional(BOOLEAN)]

GetPragmaStatements ==
    /\ statements' = getPragmaStatements(config)
    /\ op' = Call("getPragmaStatements", NoKey, Undefined)
    /\ UNCHANGED <<cache, oldCache, size, maxSize, maxAge, onEviction, now, map, ret,
                   notes, rotated, lastSet, trace, error>>
    /\ UNCHANGED <<driverVars, result, config, recency, iter>>

\* no cache in use: the function is called on a configuration
InitPragma ==
    /\ NewLRU({Infinity})
    /\ maxSize = 1
    /\ ~onEviction
    /\ permits = 1
    /\ waiters = <<>>
    /\ jobs = <<>>
    /\ pc = [p \in Procs |-> Idle]
    /\ db = FALSE
    /\ connection = FALSE
    /\ done = NoCall
    /\ result = NoResult
    /\ config \in PragmaConfigs
    /\ statements = <<>>
    /\ recency = NoRecency /\ iter = NoIter

NextPragma == GetPragmaStatements

SpecPragma == InitPragma /\ [][NextPragma]_vars

\* ---- C21 ----------------------------------------------------------------
\* the options of a configuration that were given, whatever their value
OneIfGiven(o, name, value) == IF o.given THEN <<Pragma(name, value)>> ELSE <<>>

OnOff(o) == IF o.given /\ o.value THEN "ON" ELSE "OFF"

Text(o) == IF o.given THEN o.value ELSE ""

Digits(o) == IF o.given THEN ToString(o.value) ELSE ""

OnePerConfigured(c) ==
    OneIfGiven(c.journalMode, "journal_mode", Text(c.journalMode))
    \o OneIfGiven(c.synchronous, "synchronous", Text(c.synchronous))
    \o OneIfGiven(c.cacheSize, "cache_size", Digits(c.cacheSize))
    \o OneIfGiven(c.mmapSize, "mmap_size", Digits(c.mmapSize))
    \o OneIfGiven(c.tempStore, "temp_store", Text(c.tempStore))
    \o OneIfGiven(c.lockingMode, "locking_mode", Text(c.lockingMode))
    \o OneIfGiven(c.busyTimeout, "busy_timeout", Digits(c.busyTimeout))
    \o OneIfGiven(c.foreignKeys, "foreign_keys", OnOff(c.foreignKeys))
    \o OneIfGiven(c.walAutocheckpoint, "wal_autocheckpoint", Digits(c.walAutocheckpoint))
    \o OneIfGiven(c.trustedSchema, "trusted_schema", OnOff(c.trustedSchema))

\* C21: getPragmaStatements returns one 'PRAGMA name=value;' statement for each
\* option that was configured and none for an option left out, in the fixed
\* order, a boolean as ON or OFF (violated: a number option configured as 0,
\* such as busyTimeout: 0, gets no statement)
StatementPerConfigured ==
    op.name = "getPragmaStatements" => statements = OnePerConfigured(config)

\* ---- SpecRecency: set, get, has, peek and delete with the accesses recorded
InitRecency == NewLRU({Infinity}) /\ NoDriver /\ recency = NoAccess /\ iter = NoIter

NextRecency ==
    \/ \E k \in Keys : \E v \in ValuesOf(k) : Set(k, v, Undefined)
    \/ \E k \in Keys : Get(k)
    \/ \E k \in Keys : Has(k)
    \/ \E k \in Keys : Peek(k)
    \/ \E k \in Keys : Delete(k)

SpecRecency == InitRecency /\ [][NextRecency]_vars

\* ---- C22 ----------------------------------------------------------------
\* the maxSize keys that were accessed last
MostRecent == {recency.order[i] : i \in {j \in 1..Len(recency.order) : j <= maxSize}}

\* C22: without expiry, resize and clear, a key among the maxSize distinct keys
\* accessed last (set, or found by get) that was not deleted since is found by
\* get, has and peek; and a set or get that rotates loses no key that was set
\* or found by get since the previous rotation and not deleted since
ApproximateLRU ==
    /\ [](\A k \in MostRecent \ recency.deleted : ~NotFound(This, k))
    /\ [][(rotated' /\ op'.name \in {"set", "get"}) =>
             \A k \in recency.fresh \cup {op'.key} : ~NotFound(ThisNext, k)]_vars

\* a rotation has evicted b, which was accessed before the two keys accessed
\* last; a and c, accessed since, are still found
ApproximateLRUWitness ==
    /\ maxSize = 2
    /\ rotated
    /\ recency.order = <<"a", "c", "b">>
    /\ recency.deleted = {}
    /\ NotFound(This, "b")
    /\ ~NotFound(This, "a")
    /\ ~NotFound(This, "c")

\* ---- C23 ----------------------------------------------------------------
\* C23: after every completed call the active-count is the number of keys in
\* the active generation and is at most maxSize
ActiveCountExact ==
    /\ size = Cardinality(MapKeys(cache))
    /\ size = Len(cache)
    /\ size <= maxSize

\* a delete has removed the only key of the active generation and the count
\* went back to 0 while the previous generation holds keys
ActiveCountWitness ==
    /\ op.name = "delete"
    /\ ret = TRUE
    /\ ~MapHas(oldCache, op.key)
    /\ lastSet[op.key] = NoSet
    /\ size = 0
    /\ cache = <<>>
    /\ Len(oldCache) = 2

\* ---- C24 ----------------------------------------------------------------
\* the keys held in both generations
InBoth(b) == MapKeys(b.cache) \cap MapKeys(b.oldCache)

\* C24 as claimed: after any completed call no key is held in both the active
\* and the previous generation
NoKeyInBoth == InBoth(This) = {}

\* C24: a call puts a key into both generations only when it is a set of that
\* key (the key was held in the previous generation only and the set did not
\* rotate); no other call adds one, and while a key is in both, peek answers
\* from the active entry
InBothOnlyBySet ==
    /\ [][InBoth(ThisNext) \subseteq
             (InBoth(This) \cup (IF op'.name = "set" THEN {op'.key} ELSE {}))]_vars
    /\ [](\A k \in InBoth(This) :
             peek(This, k).ret = IF isExpired(MapGet(cache, k)) THEN Undefined
                                 ELSE MapGet(cache, k).value)

\* a set of a key that only the previous generation held has completed without
\* rotating: the key is in both generations with different values
InBothWitness ==
    /\ op.name = "set"
    /\ ~rotated
    /\ op.key \in InBoth(This)
    /\ MapGet(cache, op.key).value = op.arg
    /\ MapGet(oldCache, op.key).value # op.arg
    /\ peek(This, op.key).ret = op.arg

\* ---- C25 ----------------------------------------------------------------
\* the entry that the set of this step stores
EntrySet == Entry(op'.key, op'.arg, lastSet'[op'.key].expiry)

\* C25: a set of a key that the active generation does not hold and that brings
\* the active-count to maxSize notifies every entry of the previous generation
\* once, in insertion order (when there is a callback), makes the active
\* generation with the new entry the previous one, leaves the active one empty
\* and the active-count 0; any other set notifies nothing and leaves the
\* previous generation as it is
RotationBySet ==
    [][op'.name = "set" =>
          IF ~MapHas(cache, op'.key) /\ size + 1 >= maxSize
          THEN /\ rotated'
               /\ notes' = (IF onEviction
                            THEN [i \in 1..Len(oldCache) |-> Note(oldCache[i])]
                            ELSE <<>>)
               /\ oldCache' = Append(cache, EntrySet)
               /\ cache' = <<>>
               /\ size' = 0
          ELSE /\ ~rotated'
               /\ notes' = <<>>
               /\ oldCache' = oldCache
               /\ size' < maxSize]_vars

\* a set has rotated with a callback: two entries were notified in the order
\* of the previous generation, which is now the two entries of the active one
RotationBySetWitness ==
    /\ op.name = "set"
    /\ rotated
    /\ onEviction
    /\ maxSize = 2
    /\ Len(notes) = 2
    /\ notes[1].key # notes[2].key
    /\ cache = <<>>
    /\ size = 0
    /\ Len(oldCache) = 2
    /\ oldCache[2].key = op.key
    /\ oldCache[2].value = op.arg

\* ---- C26 ----------------------------------------------------------------
\* C26: get(k) of a key that only the previous generation holds: when the entry
\* has not expired it is taken out of the previous generation and inserted
\* into the active one as #set does (the count grows by one, or the cache
\* rotates when maxSize is reached, notifying the remaining previous entries
\* and never k), and its value is returned; when it has expired it is deleted,
\* notified once (when there is a callback) and not-found is returned without
\* promoting
PromotingGet ==
    [][(op'.name = "get" /\ ~MapHas(cache, op'.key) /\ MapHas(oldCache, op'.key)) =>
          LET k == op'.key
              item == MapGet(oldCache, k)
              rest == MapDelete(oldCache, k)
          IN IF ~isExpired(item)
             THEN /\ ret' = item.value
                  /\ \A i \in 1..Len(notes') : notes'[i].key # k
                  /\ IF size + 1 >= maxSize
                     THEN /\ rotated'
                          /\ notes' = (IF onEviction
                                       THEN [i \in 1..Len(rest) |-> Note(rest[i])]
                                       ELSE <<>>)
                          /\ oldCache' = Append(cache, item)
                          /\ cache' = <<>>
                          /\ size' = 0
                     ELSE /\ ~rotated'
                          /\ notes' = <<>>
                          /\ oldCache' = rest
                          /\ cache' = Append(cache, item)
                          /\ size' = size + 1
             ELSE /\ ret' = Undefined
                  /\ notes' = (IF onEviction THEN <<Note(item)>> ELSE <<>>)
                  /\ oldCache' = rest
                  /\ cache' = cache
                  /\ size' = size
                  /\ ~rotated']_vars

\* a get has promoted its key and the promotion rotated: the key is the newest
\* entry of the new previous generation, its value was returned, and the one
\* notification is for another key
PromotingGetWitness ==
    /\ op.name = "get"
    /\ rotated
    /\ onEviction
    /\ maxSize = 2
    /\ ret # Undefined
    /\ cache = <<>>
    /\ Len(oldCache) = 2
    /\ oldCache[2].key = op.key
    /\ oldCache[2].value = ret
    /\ Len(notes) = 1
    /\ notes[1].key # op.key

\* ---- C27 ----------------------------------------------------------------
\* the entry of k that get, has and peek look at
Visible(k) == IF MapHas(cache, k) THEN MapGet(cache, k) ELSE MapGet(oldCache, k)

\* k is held and the entry that get, has and peek look at has expired
VisibleExpired(k) == k \in HeldKeys /\ Expired(Visible(k))

\* C27: a call notifies only when it is a set or get that rotates, a get, has
\* or peek that visits an expired entry (which notifies that one entry), or a
\* resize; delete and clear never notify, and get, has and peek of a key whose
\* entry has not expired notify only when it is a get that promotes and rotates
NotifiedOnlyBy ==
    [][/\ notes' # <<>> =>
             \/ op'.name \in {"set", "get"} /\ rotated'
             \/ /\ op'.name \in {"get", "has", "peek"}
                /\ VisibleExpired(op'.key)
                /\ notes' = <<Note(Visible(op'.key))>>
             \/ op'.name = "resize"
       /\ op'.name \in {"delete", "clear"} => notes' = <<>>
       /\ (op'.name \in {"get", "has", "peek"} /\ ~VisibleExpired(op'.key) /\ notes' # <<>>)
             => (op'.name = "get" /\ rotated' /\ ~MapHas(cache, op'.key)
                 /\ MapHas(oldCache, op'.key))]_vars

\* with a callback and a default maxAge, a delete after the clock has advanced
\* has removed the entry of its key and notified nothing
NotifiedOnlyByWitness ==
    /\ op.name = "delete"
    /\ ret = TRUE
    /\ onEviction
    /\ notes = <<>>
    /\ ~(op.key \in HeldKeys)
    /\ maxAge # Infinity
    /\ now > 1

\* ---- C28 ----------------------------------------------------------------
\* the step leaves both generations, the active-count and maxSize as they are,
\* does not rotate and notifies nothing
NothingChanged ==
    /\ cache' = cache
    /\ oldCache' = oldCache
    /\ size' = size
    /\ maxSize' = maxSize
    /\ ~rotated'
    /\ notes' = <<>>

\* C28: peek(k) and has(k) of a key whose visible entry has not expired change
\* nothing (no promotion, no rotation, no notification) and answer from that
\* entry; so does get(k) of a key whose entry in the active generation has not
\* expired
InspectionIsPure ==
    [][/\ (op'.name \in {"peek", "has"} /\ op'.key \in HeldKeys
              /\ ~VisibleExpired(op'.key)) =>
             /\ NothingChanged
             /\ ret' = IF op'.name = "has" THEN TRUE ELSE Visible(op'.key).value
       /\ (op'.name = "get" /\ MapHas(cache, op'.key)
              /\ ~Expired(MapGet(cache, op'.key))) =>
             /\ NothingChanged
             /\ ret' = MapGet(cache, op'.key).value]_vars

\* has(k) has returned true for a key that only the previous generation holds,
\* in a cache where promoting k would have rotated: k is still there and the
\* active generation still holds its one key
InspectionWitness ==
    /\ op.name = "has"
    /\ ret = TRUE
    /\ maxSize = 2
    /\ size = 1
    /\ Len(cache) = 1
    /\ MapHas(oldCache, op.key)
    /\ ~MapHas(cache, op.key)
    /\ ~rotated
    /\ notes = <<>>

\* ---- C29 ----------------------------------------------------------------
\* what a resize notifies for the expired entries it meets
ExpiredNotes ==
    IF onEviction THEN [i \in 1..Len(ExpiredMet) |-> Note(ExpiredMet[i])] ELSE <<>>

\* C29 as claimed: resize(n) with at most n live entries, exactly n included,
\* makes them the active generation, empties the previous one, sets the
\* active-count to their number and maxSize to n, and notifies only the
\* expired entries
ResizeFitsActive ==
    [][(op'.name = "resize" /\ Len(LiveAscending) - op'.arg <= 0) =>
          /\ cache' = LiveAscending
          /\ oldCache' = <<>>
          /\ size' = Len(LiveAscending)
          /\ maxSize' = op'.arg
          /\ notes' = ExpiredNotes]_vars

\* C29: resize(n) with fewer than n live entries makes them the active
\* generation, empties the previous one and sets the active-count to their
\* number; with exactly n live entries they become the previous generation,
\* the active one is empty and the active-count is 0; in both cases maxSize
\* becomes n and only the expired entries are notified
ResizeFits ==
    [][(op'.name = "resize" /\ Len(LiveAscending) - op'.arg <= 0) =>
          /\ IF Len(LiveAscending) - op'.arg < 0
             THEN /\ cache' = LiveAscending
                  /\ oldCache' = <<>>
                  /\ size' = Len(LiveAscending)
             ELSE /\ cache' = <<>>
                  /\ oldCache' = LiveAscending
                  /\ size' = 0
          /\ maxSize' = op'.arg
          /\ notes' = ExpiredNotes]_vars

\* with a callback, resize(2) has met exactly two live entries: nothing was
\* notified, both are in the previous generation and the active one is empty
ResizeFitsWitness ==
    /\ op.name = "resize"
    /\ op.arg = 2
    /\ maxSize = 2
    /\ onEviction
    /\ notes = <<>>
    /\ cache = <<>>
    /\ size = 0
    /\ Len(oldCache) = 2

\* ---- C30 ----------------------------------------------------------------
\* the keys of the previous generation that the active one does not hold
PreviousOnly == MapKeys(oldCache) \ MapKeys(cache)

\* C30: in every reachable state the size getter returns the smaller of maxSize
\* and active-count + the number of keys of the previous generation that are
\* not in the active one; when the active-count is 0 it returns the number of
\* keys of the previous generation, which never exceeds maxSize
SizeIsCappedSum ==
    /\ sizeGetter(This) = IF size + Cardinality(PreviousOnly) < maxSize
                          THEN size + Cardinality(PreviousOnly)
                          ELSE maxSize
    /\ size = 0 => sizeGetter(This) = Cardinality(MapKeys(oldCache))
    /\ Cardinality(MapKeys(oldCache)) <= maxSize

\* right after a rotation: the active-count is 0, the previous generation holds
\* maxSize keys and the getter returns their number
SizeIsCappedSumWitness ==
    /\ rotated
    /\ maxSize = 2
    /\ size = 0
    /\ cache = <<>>
    /\ Cardinality(MapKeys(oldCache)) = 2
    /\ sizeGetter(This) = 2

\* ---- SpecIter: an LRUBase with expiry whose entries are traversed ---------
\* the values a key is set to: a to two values, so that a shadowed copy of a
\* differs from the active one
IterValuesOf(k) == IF k = "a" THEN ValuesOf(k) ELSE {3}

\* the maxSize of the cache that is traversed: its active generation can hold
\* two entries
IterMaxSize == 3

InitIter ==
    /\ NewLRUOf({IterMaxSize}, {Infinity} \cup (1..MaxAgeBound))
    /\ NoDriver
    /\ recency = NoRecency /\ iter = NoIter

NextIter ==
    \/ \E k \in Keys : \E v \in IterValuesOf(k) : Set(k, v, Undefined)
    \/ \E k \in Keys : Get(k)
    \/ \E k \in Keys : Delete(k)
    \/ Tick
    \/ EntriesAscending
    \/ EntriesDescending

SpecIter == InitIter /\ [][NextIter]_vars

\* ---- C31 ----------------------------------------------------------------
\* the keys of a sequence of pairs
PairKeys(ps) == {ps[i].key : i \in 1..Len(ps)}

\* C31: a full entriesAscending traversal yields every key for which has would
\* return true exactly once, oldest first: the previous entries that the active
\* generation does not shadow in insertion order, then the active entries in
\* insertion order (so a shadowed key comes with its active value); the
\* expired entries it meets are notified and deleted, not yielded
AscendingOrder ==
    [][op'.name = "entriesAscending" =>
          /\ ret' = Pairs(LiveAscending)
          /\ PairKeys(ret') = LiveKeys
          /\ Cardinality(PairKeys(ret')) = Len(ret')
          /\ notes' = ExpiredNotes
          /\ \A i \in 1..Len(ExpiredMet) :
                ExpiredMet[i].key \notin (MapKeys(cache') \cup MapKeys(oldCache'))]_vars

\* a traversal has notified one expired entry and yielded a previous entry
\* followed by an active entry whose key the previous generation holds too,
\* with another value
AscendingOrderWitness ==
    /\ op.name = "entriesAscending"
    /\ onEviction
    /\ Len(notes) = 1
    /\ Len(ret) = 2
    /\ MapHas(oldCache, ret[1].key) /\ ~MapHas(cache, ret[1].key)
    /\ MapHas(cache, ret[2].key) /\ MapHas(oldCache, ret[2].key)
    /\ MapGet(cache, ret[2].key).value = ret[2].value
    /\ MapGet(oldCache, ret[2].key).value # ret[2].value

\* ---- C32 ----------------------------------------------------------------
Reverse(ps) == [i \in 1..Len(ps) |-> ps[Len(ps) + 1 - i]]

\* C32: in every reachable state a full entriesDescending traversal yields the
\* reverse of what a full entriesAscending traversal yields from that state at
\* that time; both notify the same expired entries and leave the same cache
DescendingIsReverse ==
    LET a == entriesAscending(This)
        d == entriesDescending(This)
    IN /\ d.items = Reverse(a.items)
       /\ Range(d.b.notes) = Range(a.b.notes)
       /\ Len(d.b.notes) = Len(a.b.notes)
       /\ d.b.cache = a.b.cache
       /\ d.b.oldCache = a.b.oldCache
       /\ d.b.size = a.b.size

\* a descending traversal has notified one expired entry and yielded an active
\* entry followed by a previous one; an ascending traversal from here yields
\* them in the opposite order
DescendingIsReverseWitness ==
    /\ op.name = "entriesDescending"
    /\ onEviction
    /\ Len(notes) = 1
    /\ Len(ret) = 2
    /\ MapHas(cache, ret[1].key)
    /\ MapHas(oldCache, ret[2].key) /\ ~MapHas(cache, ret[2].key)
    /\ entriesAscending(This).items = <<ret[2], ret[1]>>

\* ---- the generators of entriesAscending and entriesDescending, step by step
\* the generator after #deleteIfExpired led from b to d: a deletion from the
\* Map it iterates moves its position
Moved(b, d, it) ==
    IF it.target \in {"cache", "oldCache"}
    THEN [it EXCEPT !.pos = Passed(Source(b, it), Source(d, it), it.pos)]
    ELSE it

\* the generator has returned
Returned(b) == [b |-> [b EXCEPT !.ret = <<>>], it |-> NoIter]

\* #entriesAscending resumed until its next yield or its return: the instance
\* afterwards (ret is the pair yielded, or empty) and the generator
RECURSIVE ascendingNext(_, _)
ascendingNext(b, it) ==
    LET m == Source(b, it)
    IN IF it.pos >= Len(m)
       THEN IF it.phase = "old"
            THEN ascendingNext(b, [it EXCEPT !.phase = "cache", !.target = "cache",
                                             !.items = <<>>, !.pos = 0])
            ELSE Returned(b)
       ELSE LET item == m[it.pos + 1]
                it1 == [it EXCEPT !.pos = @ + 1]
            IN IF it.phase = "old" /\ MapHas(b.cache, item.key)
               THEN ascendingNext(b, it1)
               ELSE LET d == deleteIfExpired(b, item.key, item)
                        it2 == Moved(b, d, it1)
                    IN IF d.ret = FALSE
                       THEN [b |-> [d EXCEPT !.ret = <<Note(item)>>], it |-> it2]
                       ELSE ascendingNext(d, it2)

\* the first next() of entriesAscending: the loop over this.#oldCache begins
ascendingFirst(b) ==
    ascendingNext(b, [kind |-> "ascending", phase |-> "old", target |-> "oldCache",
                      items |-> <<>>, pos |-> 0])

\* entriesDescending resumed until its next yield or its return; the arrays
\* cacheItems and oldItems are walked from their last element
RECURSIVE descendingNext(_, _)
descendingNext(b, it) ==
    IF it.pos >= Len(it.items)
    THEN IF it.phase = "cache"
         THEN descendingNext(b, [it EXCEPT !.phase = "old", !.items = b.oldCache,
                                           !.pos = 0])
         ELSE Returned(b)
    ELSE LET item == it.items[Len(it.items) - it.pos]
             it1 == [it EXCEPT !.pos = @ + 1]
         IN IF it.phase = "old" /\ MapHas(b.cache, item.key)
            THEN descendingNext(b, it1)
            ELSE LET d == deleteIfExpired(b, item.key, item)
                 IN IF d.ret = FALSE
                    THEN [b |-> [d EXCEPT !.ret = <<Note(item)>>], it |-> it1]
                    ELSE descendingNext(d, it1)

\* the first next() of entriesDescending: cacheItems = [...this.#cache]
descendingFirst(b) ==
    descendingNext(b, [kind |-> "descending", phase |-> "cache", target |-> "own",
                       items |-> b.cache, pos |-> 0])

\* a next() of a generator: r is the instance and the generator afterwards
Yield(r, c) ==
    /\ cache' = r.b.cache
    /\ oldCache' = r.b.oldCache
    /\ size' = r.b.size
    /\ notes' = r.b.notes
    /\ ret' = r.b.ret
    /\ rotated' = FALSE
    /\ error' = "none"
    /\ op' = c
    /\ iter' = r.it
    /\ lastSet' = Forget(lastSet, r.b.notes)
    /\ trace' = TraceNext(c)
    /\ UNCHANGED <<maxSize, maxAge, onEviction, now, map>>
    /\ UNCHANGED <<driverVars, result, config, statements, recency>>

\* const it = cache.entriesAscending(); it.next()
AscendingFirst ==
    /\ iter.kind = "none"
    /\ Yield(ascendingFirst(This), Call("first", NoKey, Undefined))

\* const it = cache.entriesDescending(); it.next()
DescendingFirst ==
    /\ iter.kind = "none"
    /\ Yield(descendingFirst(This), Call("first", NoKey, Undefined))

\* it.next() of the suspended generator
IterNext ==
    /\ iter.kind # "none"
    /\ Yield(IF iter.kind = "ascending" THEN ascendingNext(This, iter)
             ELSE descendingNext(This, iter),
             Call("next", NoKey, Undefined))

InitStep == New({Infinity} \cup (1..MaxAgeBound))

NextStep ==
    \/ \E k \in TTLKeys : \E v \in ValuesOf(k) : Set(k, v, Undefined)
    \/ \E k \in TTLKeys : Get(k)
    \/ \E k \in TTLKeys : Delete(k)
    \/ Tick
    \/ AscendingFirst
    \/ DescendingFirst
    \/ IterNext

SpecStep == InitStep /\ [][NextStep]_vars

\* ---- C33 ----------------------------------------------------------------
\* the pairs of the entries that b holds in either generation
HeldPairs(b) == Range(Pairs(b.cache)) \cup Range(Pairs(b.oldCache))

\* C33: whatever calls were made while the generator was suspended, a resumed
\* traversal yields only entries that the cache still holds and notifies only
\* entries that the cache held when the traversal was resumed (violated: after
\* a rotation the ascending generator goes on with the former previous
\* generation, and the descending generator walks arrays taken earlier)
ResumedTraversalIsCurrent ==
    [][op'.name = "next" =>
          /\ Range(ret') \subseteq HeldPairs(ThisNext)
          /\ Range(notes') \subseteq HeldPairs(This)]_vars

\* ---- SpecRead: entries that live long enough to be read at a later time ---
\* the default maxAge, and the last time of the clock
ReadMaxAge == 2
ReadMaxTime == 3

InitRead ==
    /\ NewLRUOf(1..MaxSizeBound, {ReadMaxAge})
    /\ NoDriver
    /\ recency = NoRecency /\ iter = NoIter

NextRead ==
    \/ \E k \in TTLKeys : \E v \in ValuesOf(k) : Set(k, v, Undefined)
    \/ \E k \in TTLKeys : Get(k)
    \/ \E k \in TTLKeys : Has(k)
    \/ \E k \in TTLKeys : Peek(k)
    \/ TickUntil(ReadMaxTime)

SpecRead == InitRead /\ [][NextRead]_vars

\* ---- C34 ----------------------------------------------------------------
\* the entries held in either generation
Entries(b) == Range(b.cache) \cup Range(b.oldCache)

\* C34: get (promotion included), has and peek leave every entry they keep
\* with the expiry it had; an entry that appears with a new expiry is the
\* entry of the set of this step; so the visible entry of a key carries the
\* expiry its last set gave it, and once that time is reached the key is
\* not-found however often it was read
ReadsKeepExpiry ==
    /\ [][op'.name \in {"get", "has", "peek"} =>
             Entries(ThisNext) \subseteq Entries(This)]_vars
    /\ [][\A e \in Entries(ThisNext) \ Entries(This) :
             /\ op'.name = "set" /\ op'.key = e.key
                 /\ e.expiry = lastSet'[e.key].expiry]_vars
    /\ [](\A k \in HeldKeys :
             /\ lastSet[k] # NoSet => Visible(k).expiry = lastSet[k].expiry
             /\ Expired(Visible(k)) => NotFound(This, k))

\* a get at a later time than the set has promoted its key into the active
\* generation: the entry still expires when the set said, not a maxAge after
\* the get
ReadsKeepExpiryWitness ==
    /\ op.name = "get"
    /\ ret # Undefined
    /\ ~rotated
    /\ MapHas(cache, op.key)
    /\ lastSet[op.key] # NoSet
    /\ MapGet(cache, op.key).expiry = lastSet[op.key].expiry
    /\ MapGet(cache, op.key).expiry < now + maxAge
    /\ oldCache # <<>>

\* ---- C35 ----------------------------------------------------------------
\* the failure the claim speaks of, whatever the code makes of it: an error of
\* SQLite whose primary result code is SQLITE_NOMEM, thrown as node:sqlite
\* throws it or as a NodeSqliteError
IsOutOfMemory(e) ==
    e.isError /\ e.fields /\ getPrimaryResultCode(e) = SQLITE_NOMEM

\* C35 as claimed: with a statement cache configured (maxSize is defined),
\* when db.prepare throws an out-of-memory error the statement cache is
\* emptied and #prepareStatement throws an ERR_SQLITE_OOM error, which is also
\* what executeQuery reports; when it throws anything else the cache holds
\* what it held and #prepareStatement throws that same error
PrepareFailureHandled ==
    [][(maxSize # Undefined /\ op'.name = "executeQuery" /\ result'.stage = "prepare") =>
          LET e == result'.cause
              r == prepareStatement(This, map, op'.key, Undefined, e)
          IN IF IsOutOfMemory(e)
             THEN /\ cache' = <<>> /\ oldCache' = <<>> /\ size' = 0
                  /\ map' = <<>>
                  /\ r.thrown.code = "ERR_SQLITE_OOM"
                  /\ result'.thrown.code = "ERR_SQLITE_OOM"
             ELSE /\ cache' = cache /\ oldCache' = oldCache /\ size' = size
                  /\ map' = map
                  /\ r.thrown = e]_vars

\* ---- SpecRelease: the calls of the driver with releaseConnection in any order ----
\* releaseConnection() called by a caller that does not hold the connection
\* (a second release, or a release without an acquire): lines 423-425 test
\* only whether the lock is held, not by whom
ReleaseConnectionStray(p) ==
    /\ pc[p] = Idle
    /\ mutexRelease(pc)
    /\ done' = Done(p, "release", "stray")
    /\ UNCHANGED <<db, connection, result, config, statements, recency, iter>>
    /\ UNCHANGED lruVars

\* an initialised driver, its lock free
InitRelease ==
    /\ NewLRU({Infinity})
    /\ maxSize = MaxSizeBound
    /\ onEviction
    /\ permits = 1
    /\ waiters = <<>>
    /\ jobs = <<>>
    /\ pc = [p \in Procs |-> Idle]
    /\ db = TRUE
    /\ connection = TRUE
    /\ done = Done("p1", "init", "ok")
    /\ result = NoResult
    /\ config = NoConfig
    /\ statements = <<>>
    /\ recency = NoRecency /\ iter = NoIter

NextRelease ==
    \/ \E p \in Procs : InitCall(p)
    \/ \E p \in Procs : InitStart(p)
    \/ \E p \in Procs : \E o \in InitOutcomes : InitRun(p, o)
    \/ \E p \in Procs : \E o \in InitEndings : InitEnd(p, o)
    \/ \E p \in Procs : AcquireCall(p)
    \/ \E p \in Procs : MutexAcquired(p)
    \/ \E p \in Procs : AcquireRun(p)
    \/ \E p \in Procs : ReleaseConnection(p)
    \/ \E p \in Procs : ReleaseConnectionStray(p)
    \/ \E p \in Procs : DestroyCall(p)
    \/ \E p \in Procs : \E o \in DestroyOutcomes : DestroyRun(p, o)
    \/ \E p \in Procs : RunExclusiveEnd(p)
    \/ \E p \in Procs : Settle(p)

SpecRelease == InitRelease /\ [][NextRelease]_vars

\* ---- C36 ----------------------------------------------------------------
\* the callers that hold the connection
Holders == { p \in Procs : pc[p].at = "holding" }

\* C36 as claimed: a releaseConnection by a caller that does not hold the
\* connection changes neither the lock, the callers waiting for it nor any
\* caller's position, and at no time do two callers hold the connection
ReleaseByHolderOnly ==
    /\ [][\A p \in Procs :
             ReleaseConnectionStray(p) => UNCHANGED <<permits, waiters, pc>>]_vars
    /\ [](Cardinality(Holders) <= 1)

\* ---- SpecUninit: a driver whose init never succeeds ----------------------
InitUninit == InitDriver

NextUninit ==
    \/ \E p \in Procs : InitCall(p)
    \/ \E p \in Procs : InitStart(p)
    \/ \E p \in Procs : \E o \in InitOutcomes : InitRun(p, o)
    \/ \E p \in Procs : InitEnd(p, "late")
    \/ \E p \in Procs : AcquireCall(p)
    \/ \E p \in Procs : MutexAcquired(p)
    \/ \E p \in Procs : AcquireRun(p)
    \/ \E p \in Procs : ReleaseConnection(p)
    \/ \E p \in Procs : DestroyCall(p)
    \/ \E p \in Procs : \E o \in DestroyOutcomes : DestroyRun(p, o)
    \/ \E p \in Procs : RunExclusiveEnd(p)
    \/ \E p \in Procs : Settle(p)

SpecUninit == InitUninit /\ [][NextUninit]_vars

\* ---- C37 ----------------------------------------------------------------
\* the lock has left caller p: p is outside the driver or has only to
\* settle, and the lock is free or has passed to the caller that waited longest
LockLeft(p) ==
    /\ pc'[p].at \in {"idle", "resolved", "rejected"}
    /\ IF waiters = <<>>
       THEN ~isLocked'
       ELSE isLocked' /\ pc'[Head(waiters)].at = "granted"

\* C37 as claimed: on a driver without a successful init (none yet, failed
\* ones, or destroyed) every acquireConnection fails and gives the lock up,
\* and every init and destroy gives the lock up when it ends
UninitializedRefused ==
    /\ [][\A p \in Procs :
             AcquireRun(p) => done' = Done(p, "acquire", "error") /\ LockLeft(p)]_vars
    /\ [][\A p \in Procs :
             RunExclusiveEnd(p) => LockLeft(p)]_vars

\* ---- the result codes (module "#errors.js") ------------------------------
\* enum SqlitePrimaryResultCode
SqlitePrimaryResultCode ==
    [
      SQLITE_OK |-> 0,
      SQLITE_ERROR |-> 1,
      SQLITE_INTERNAL |-> 2,
      SQLITE_PERM |-> 3,
      SQLITE_ABORT |-> 4,
      SQLITE_BUSY |-> 5,
      SQLITE_LOCKED |-> 6,
      SQLITE_NOMEM |-> 7,
      SQLITE_READONLY |-> 8,
      SQLITE_INTERRUPT |-> 9,
      SQLITE_IOERR |-> 10,
      SQLITE_CORRUPT |-> 11,
      SQLITE_NOTFOUND |-> 12,
      SQLITE_FULL |-> 13,
      SQLITE_CANTOPEN |-> 14,
      SQLITE_PROTOCOL |-> 15,
      SQLITE_EMPTY |-> 16,
      SQLITE_SCHEMA |-> 17,
      SQLITE_TOOBIG |-> 18,
      SQLITE_CONSTRAINT |-> 19,
      SQLITE_MISMATCH |-> 20,
      SQLITE_MISUSE |-> 21,
      SQLITE_NOLFS |-> 22,
      SQLITE_AUTH |-> 23,
      SQLITE_FORMAT |-> 24,
      SQLITE_RANGE |-> 25,
      SQLITE_NOTADB |-> 26,
      SQLITE_NOTICE |-> 27,
      SQLITE_WARNING |-> 28,
      SQLITE_ROW |-> 100,
      SQLITE_DONE |-> 101 ]

\* a member SQLITE_<family>_<detail> of the enum SqliteExtendedResultCode
Extended(family, detail, code) == [family |-> family, detail |-> detail, code |-> code]

\* enum SqliteExtendedResultCode
SqliteExtendedResultCode ==
    {
      Extended("CONSTRAINT", "CHECK", 275),
      Extended("CONSTRAINT", "COMMITHOOK", 531),
      Extended("CONSTRAINT", "FOREIGNKEY", 787),
      Extended("CONSTRAINT", "FUNCTION", 1043),
      Extended("CONSTRAINT", "NOTNULL", 1299),
      Extended("CONSTRAINT", "PRIMARYKEY", 1555),
      Extended("CONSTRAINT", "TRIGGER", 1811),
      Extended("CONSTRAINT", "UNIQUE", 2067),
      Extended("CONSTRAINT", "VTAB", 2323),
      Extended("CONSTRAINT", "ROWID", 2579),
      Extended("CONSTRAINT", "PINNED", 2835),
      Extended("CONSTRAINT", "DATATYPE", 3091),
      Extended("IOERR", "READ", 266),
      Extended("IOERR", "WRITE", 778),
      Extended("IOERR", "FSYNC", 1034),
      Extended("IOERR", "LOCK", 3850),
      Extended("IOERR", "UNLOCK", 2058),
      Extended("IOERR", "NOMEM", 3082),
      Extended("BUSY", "RECOVERY", 261),
      Extended("BUSY", "SNAPSHOT", 517),
      Extended("BUSY", "TIMEOUT", 773),
      Extended("LOCKED", "SHAREDCACHE", 262),
      Extended("CORRUPT", "VTAB", 267),
      Extended("CORRUPT", "SEQUENCE", 523),
      Extended("CORRUPT", "INDEX", 779) }

\* the primary code SQLITE_<family>
PrimaryOf(family) == SqlitePrimaryResultCode["SQLITE_" \o family]

\* ---- SpecCodes: the methods of a NodeSqliteError for every errcode -------
\* the largest errcode tried: SQLITE_IOERR_LOCK, the largest code defined
MaxErrCode == 3850

\* a NodeSqliteError with some errcode has been constructed
InitCodes ==
    /\ NewLRU({Infinity})
    /\ maxSize = 1
    /\ ~onEviction
    /\ permits = 1
    /\ waiters = <<>>
    /\ jobs = <<>>
    /\ pc = [p \in Procs |-> Idle]
    /\ db = FALSE
    /\ connection = FALSE
    /\ done = NoCall
    /\ \E c \in 0..MaxErrCode :
          result = [NoResult EXCEPT !.thrown = NodeSqliteError("ERR_SQLITE_ERROR", c, "")]
    /\ config = NoConfig
    /\ statements = <<>>
    /\ recency = NoRecency /\ iter = NoIter

\* the five methods are called on the error
Classify ==
    /\ op.name = "new"
    /\ op' = Call("classify", NoKey, result.thrown.errcode)
    /\ ret' = [primary |-> getPrimaryResultCode(result.thrown),
               extended |-> getExtendedResultCode(result.thrown),
               constraint |-> isConstraintError(result.thrown),
               locked |-> isDatabaseLocked(result.thrown),
               corruption |-> isCorruption(result.thrown)]
    /\ UNCHANGED <<cache, oldCache, size, maxSize, maxAge, onEviction, now, map,
                   notes, rotated, lastSet, trace, error>>
    /\ UNCHANGED <<driverVars, result, config, statements, recency, iter>>

NextCodes == Classify

SpecCodes == InitCodes /\ [][NextCodes]_vars

\* ---- C38 ----------------------------------------------------------------
\* the codes the two enums define
DefinedCodes ==
    { SqlitePrimaryResultCode[n] : n \in DOMAIN SqlitePrimaryResultCode }
        \cup { x.code : x \in SqliteExtendedResultCode }

\* the codes of a family: its primary code and its extended codes
FamilyCodes(family) ==
    {PrimaryOf(family)} \cup { x.code : x \in { y \in SqliteExtendedResultCode :
                                                  y.family = family } }

\* C38: the low byte of every extended result code defined is the primary code
\* of its family; among the codes defined, isConstraintError holds exactly for
\* the CONSTRAINT codes, isDatabaseLocked exactly for the BUSY and LOCKED
\* codes and isCorruption exactly for the CORRUPT codes; and
\* getExtendedResultCode returns the errcode when it is above 255 and
\* undefined otherwise
ResultCodeFamilies ==
    op.name = "classify" =>
        LET c == op.arg
            r == ret
        IN /\ \A x \in SqliteExtendedResultCode :
                  x.code = c => r.primary = PrimaryOf(x.family) /\ r.extended = c
           /\ c \in DefinedCodes =>
                  /\ r.constraint <=> c \in FamilyCodes("CONSTRAINT")
                  /\ r.locked <=> c \in FamilyCodes("BUSY") \cup FamilyCodes("LOCKED")
                  /\ r.corruption <=> c \in FamilyCodes("CORRUPT")
           /\ r.extended # Undefined <=> c > 255
           /\ c > 255 => r.extended = c

\* the methods were called on an error with the code of
\* SQLITE_CONSTRAINT_DATATYPE: its primary code is SQLITE_CONSTRAINT, it is a
\* constraint error and neither a lock nor a corruption error
ResultCodeFamiliesWitness ==
    /\ op.name = "classify"
    /\ op.arg = 3091
    /\ ret = [primary |-> SQLITE_CONSTRAINT, extended |-> 3091,
              constraint |-> TRUE, locked |-> FALSE, corruption |-> FALSE]

====
